---- MODULE Spec2Model ----
(***************************************************************************)
(* TaskOff: the countdown scheduler (src/src/core/scheduler.py) and the    *)
(* action executor (src/src/automation/executor.py) as state machines.     *)
(*                                                                         *)
(* Scheduler.  `caller` is the thread that calls start/cancel/pause/resume *)
(* (the UI thread of MainWindow); `timers` holds the threading.Timer       *)
(* objects that were started and have not finished.  The function          *)
(* _start_countdown_tick runs on the caller's thread when start()/resume() *)
(* call it (scheduler.py:64, 145) and on a Timer's thread when the Timer   *)
(* fires (scheduler.py:116).  One step of the model is one statement of    *)
(* the code; a `with self._lock:` block is one step, because nothing else  *)
(* that takes the lock can run inside it, and the statements outside a     *)
(* lock (lines 57, 68, 115, 136-139, 143-144) are steps of their own, so   *)
(* that every interleaving of them is explored.  Timer objects have no     *)
(* identity beyond being the one self._countdown_timer refers to, so they  *)
(* are kept as a bag.                                                      *)
(***************************************************************************)
EXTENDS Integers, Sequences, FiniteSets, Bags, TLC

\* ------------------------------------------------------------------ bounds
MaxSeconds == 2      \* start(seconds) is called with seconds in 0..MaxSeconds
MaxTimers == 2       \* Timer objects alive at the same time
MaxPaused == 3       \* seconds of the countdown that is paused and resumed

\* ------------------------------------------------------- program constants
DefaultWarningSeconds == 30

VARIABLES
    remaining_seconds,   \* ShutdownScheduler._remaining_seconds
    is_running,          \* ShutdownScheduler._is_running
    warning_seconds,     \* ShutdownScheduler._warning_seconds
    countdown_timer,     \* ShutdownScheduler._countdown_timer: "None" or "Timer"
    caller,              \* the calling thread: where it is, and its tick's locals
    timers,              \* the bag of live Timer threads: where each is, its locals
    mop,                 \* the public method the caller is inside
    marg,                \* start's argument `seconds`; in pause, remaining_seconds at the call
    run,                 \* history: the run the last start() created
    log,                 \* history: notifications of that run while nothing interferes
    quiet                \* history: notifications delivered since cancel() / pause() returned

schedVars == <<remaining_seconds, is_running, warning_seconds, countdown_timer,
               caller, timers, mop, marg, run, log, quiet>>

\* ActionExecutor (src/src/automation/executor.py)
VARIABLES
    ex_running,   \* ActionExecutor._is_running
    epc,          \* the statement of execute_sequence the worker is at
    eseq,         \* sequence.actions: the enabled flag of each action
    eidx,         \* the loop's index (0-based)
    esuccess,     \* the local `success`
    eret,         \* the value execute_sequence returned: "none", "True" or "False"
    elog,         \* history: the notifications of this call
    estop,        \* history: action-starts emitted when stop() was first called in this call, or -1
    eearly        \* history: "pending" once stop() was called outside a call, "yes" in
                  \* the call that follows such a stop(), "no" otherwise

execVars == <<ex_running, epc, eseq, eidx, esuccess, eret, elog, estop, eearly>>

\* MainWindow and its ExecutionThreads (src/src/ui/main_window.py)
VARIABLES
    wthreads,     \* the ExecutionThread objects created so far, in order of creation
    wcurrent,     \* MainWindow.execution_thread: index into wthreads, 0 for None
    wqueue,       \* signals queued to the UI thread, oldest first
    wreq,         \* history: one entry per _execute_shutdown call
    wcompleted,   \* history: countdown completions signalled so far
    wcancel       \* history: at the last cancel_countdown, the completions signalled
                  \* (at, -1 before the first call) and the power requests issued

winVars == <<wthreads, wcurrent, wqueue, wreq, wcompleted, wcancel>>

\* One TypeText action in execute_action and KeyboardController
\* (src/src/automation/keyboard_control.py)
VARIABLES
    kact,         \* the action: its enabled flag, text (code points) and interval
    kpc,          \* the statement the executing thread is at
    kclip,        \* the system clipboard
    ksaved,       \* type_unicode's local original_clipboard
    ki,           \* the characters of the text the loop of line 75 has done
    kraised,      \* an exception is propagating
    khist         \* history: the clipboard at the call, the driver calls made, the result

kbdVars == <<kact, kpc, kclip, ksaved, ki, kraised, khist>>

\* MainWindow.sequence, an ActionSequence (src/src/models/action.py), and
\* the file the save and load dialogs name
VARIABLES
    sname,        \* ActionSequence.name
    sactions,     \* ActionSequence.actions
    sissued,      \* how many ids uuid4 has handed out
    sfile         \* the file: who wrote it, its JSON text, and (history) what was saved
                  \* and whether the sequence is as load_sequence read it from the file

seqVars == <<sname, sactions, sissued, sfile>>

\* The static methods calculate_seconds and format_time of ShutdownScheduler
VARIABLES
    targs,        \* the arguments hours, minutes, seconds of calculate_seconds
    ttotal,       \* what calculate_seconds returned, -1 before the call
    ttext         \* what format_time returned, as a tuple of characters

timeVars == <<targs, ttotal, ttext>>

vars == <<schedVars, execVars, winVars, kbdVars, seqVars, timeVars>>

\* what the actions of one component leave alone
notSched == <<execVars, winVars, kbdVars, seqVars, timeVars>>
notExec == <<schedVars, winVars, kbdVars, seqVars, timeVars>>
notWin == <<schedVars, execVars, kbdVars, seqVars, timeVars>>
notKbd == <<schedVars, execVars, winVars, seqVars, timeVars>>
notSeq == <<schedVars, execVars, winVars, kbdVars, timeVars>>
notTime == <<schedVars, execVars, winVars, kbdVars, seqVars>>

\* A thread: pc is the statement it is at, rem and wsec are the locals
\* `remaining` and `warning_seconds` of its _start_countdown_tick, ref says
\* that self._countdown_timer is this Timer.  cc is the public method the
\* callback this thread is running, or last ran, has called ("none" when it
\* called none); outer is the stack below the current frame: empty, or the
\* frame of the callback from which the thread called back into the
\* scheduler.
Thread(who, p, r, w, f) ==
    [who |-> who, pc |-> p, rem |-> r, wsec |-> w, ref |-> f,
     cc |-> "none", outer |-> <<>>]
IdleCaller == Thread("caller", "idle", 0, 0, FALSE)
PendingTimer == Thread("timer", "pending", 0, 0, TRUE)

\* The statements of _start_countdown_tick a thread can be at.
TickPcs == {"l68", "l79", "l93", "in_complete", "l101", "in_tick", "l115", "l116"}

Running == {caller} \cup BagToSet(timers)

Min(a, b) == IF a < b THEN a ELSE b

Note(k, v) == [k |-> k, v |-> v]

\* subscribers: MainWindow.setup_scheduler registers all three callbacks
on_tick_callback == TRUE
on_complete_callback == TRUE
on_warning_callback == TRUE

\* ------------------------------------------------------- history variables
\* run.clean: start() found no Timer pending and no timer thread in a tick.
\* run.ops: a public method was called since that start() returned.
\* run.completes: complete notifications since start(), counted up to 2.
\* run.noop: the last public call was a resume() whose test of line 143 failed.
\* run.stopped: start() or cancel() was called since that start() returned.
\* run.warnings: warning notifications since start(), counted up to 2, while
\*   no start() or cancel() has been called.
\* run.resumed: the last public call was a resume() that followed a pause()
\*   with quiet.live.
\* quiet.phase: "cancelled" from cancel() to the next start(); "paused" from
\*   the return of pause() to the next resume()/start(); "resuming" while a
\*   resume() that follows a pause() runs.  quiet.tick/warning/complete count
\*   (up to 2) the notifications delivered in the cancelled or paused phase.
\* quiet.rem: remaining_seconds when cancel() or pause() was called;
\* quiet.solo: no Timer was alive when pause() returned.
\* quiet.live: when pause() cleared _is_running it was True and no complete
\*   notification had been delivered since start().
NoRun == [seconds |-> 0, clean |-> TRUE, ops |-> FALSE, completes |-> 0, started |-> FALSE,
          noop |-> FALSE, stopped |-> FALSE, resumed |-> FALSE, warnings |-> 0]
NoQuiet == [phase |-> "none", tick |-> 0, warning |-> 0, complete |-> 0,
            rem |-> 0, solo |-> FALSE, live |-> FALSE]

RunOp == [run EXCEPT !.ops = TRUE, !.noop = FALSE, !.resumed = FALSE]
RunNote(k) ==
    IF k = "complete" THEN [run EXCEPT !.completes = Min(2, @ + 1)]
    ELSE IF k = "warning" /\ ~run.stopped THEN [run EXCEPT !.warnings = Min(2, @ + 1)]
    ELSE run
LogNote(k, v) == IF run.started /\ run.clean /\ ~run.ops THEN Append(log, Note(k, v)) ELSE log
QuietNote(k) ==
    IF quiet.phase \in {"cancelled", "paused"}
    THEN [quiet EXCEPT ![k] = Min(2, @ + 1)] ELSE quiet

\* ------------------------------------------------------------ Timer objects
One(d) == SetToBag({d})

\* self._countdown_timer = <something else>: no Timer is the referenced one
Unref(B) ==
    LET R == {d \in BagToSet(B) : d.ref}
    IN IF R = {} THEN B
       ELSE LET d == CHOOSE x \in R : TRUE
            IN (B (-) One(d)) (+) One([d EXCEPT !.ref = FALSE])

\* threading.Timer.cancel() on self._countdown_timer: stops the Timer if it
\* has not fired yet; no effect on one whose function is executing or has
\* finished.
TimerCancel(B) ==
    LET R == {d \in BagToSet(B) : d.ref /\ d.pc = "pending"}
    IN IF R = {} THEN B ELSE B (-) One(CHOOSE x \in R : TRUE)

\* thread d becomes d2
Put(d, d2) ==
    IF d.who = "caller"
    THEN caller' = d2 /\ timers' = timers
    ELSE timers' = (timers (-) One(d)) (+) One(d2) /\ caller' = caller

Goto(d, p) == Put(d, [d EXCEPT !.pc = p])

SchedInit ==
    /\ remaining_seconds = 0
    /\ is_running = FALSE
    /\ warning_seconds = DefaultWarningSeconds
    /\ countdown_timer = "None"
    /\ caller = IdleCaller
    /\ timers = EmptyBag
    /\ mop = "none"
    /\ marg = 0
    /\ run = NoRun
    /\ log = <<>>
    /\ quiet = NoQuiet

\* ------------------------------------------------ ShutdownScheduler.cancel
\* scheduler.py:124
CancelRemaining == 0

\* scheduler.py:122-132, one locked block.  self._timer is never assigned a
\* Timer anywhere in the class, so lines 130-132 do nothing.
CancelBody ==
    /\ is_running' = FALSE
    /\ remaining_seconds' = CancelRemaining
    /\ timers' = Unref(TimerCancel(timers))
    /\ countdown_timer' = "None"

Cancel ==
    /\ caller.pc = "idle"
    /\ CancelBody
    /\ run' = [RunOp EXCEPT !.stopped = TRUE]
    /\ log' = <<>>
    /\ quiet' = IF quiet.phase = "cancelled" THEN quiet
                ELSE [NoQuiet EXCEPT !.phase = "cancelled", !.rem = remaining_seconds]
    /\ UNCHANGED <<warning_seconds, caller, mop, marg>>
    /\ UNCHANGED notSched

\* ------------------------------------- ShutdownScheduler.set_warning_seconds
\* scheduler.py:46-48
SetWarningSeconds(w) ==
    /\ caller.pc = "idle"
    /\ warning_seconds' = w
    /\ run' = RunOp
    /\ log' = <<>>
    /\ UNCHANGED <<remaining_seconds, is_running, countdown_timer, caller, timers,
                   mop, marg, quiet>>
    /\ UNCHANGED notSched

\* ------------------------------------------------- ShutdownScheduler.start
\* scheduler.py:57: the unlocked read of _is_running
StartCall(n) ==
    /\ caller.pc = "idle"
    /\ mop' = "start"
    /\ marg' = n
    /\ caller' = [caller EXCEPT !.pc = IF is_running THEN "s58" ELSE "s60"]
    /\ run' = [RunOp EXCEPT !.stopped = TRUE]
    /\ log' = <<>>
    /\ UNCHANGED <<remaining_seconds, is_running, warning_seconds, countdown_timer,
                   timers, quiet>>
    /\ UNCHANGED notSched

\* scheduler.py:58: self.cancel()
StartCancel ==
    /\ caller.pc = "s58"
    /\ CancelBody
    /\ caller' = [caller EXCEPT !.pc = "s60"]
    /\ UNCHANGED <<warning_seconds, mop, marg, run, log, quiet>>
    /\ UNCHANGED notSched

\* no Timer is pending and no timer thread is inside a tick
Quiescent == timers = EmptyBag

\* scheduler.py:60-62 (locked), then the call at line 64
StartLock ==
    /\ caller.pc = "s60"
    /\ remaining_seconds' = marg
    /\ is_running' = TRUE
    /\ caller' = [caller EXCEPT !.pc = "l68"]
    /\ run' = [seconds |-> marg, clean |-> Quiescent, ops |-> FALSE,
               completes |-> 0, started |-> TRUE, noop |-> FALSE, stopped |-> FALSE,
               resumed |-> FALSE, warnings |-> 0]
    /\ log' = <<>>
    /\ quiet' = NoQuiet
    /\ UNCHANGED <<warning_seconds, countdown_timer, timers, mop, marg>>
    /\ UNCHANGED notSched

\* ------------------------------------------------- ShutdownScheduler.pause
\* scheduler.py:136-138 (no lock)
PauseCall ==
    /\ caller.pc = "idle"
    /\ mop' = "pause"
    /\ marg' = remaining_seconds
    /\ timers' = Unref(TimerCancel(timers))
    /\ countdown_timer' = "None"
    /\ caller' = [caller EXCEPT !.pc = "p139"]
    /\ run' = RunOp
    /\ log' = <<>>
    /\ UNCHANGED <<remaining_seconds, is_running, warning_seconds, quiet>>
    /\ UNCHANGED notSched

\* scheduler.py:139 (no lock), and the return
PauseFlag ==
    /\ caller.pc = "p139"
    /\ is_running' = FALSE
    /\ caller' = [caller EXCEPT !.pc = "idle"]
    /\ mop' = "none"
    /\ marg' = 0
    /\ quiet' = IF quiet.phase \in {"cancelled", "paused"} THEN quiet
                ELSE [NoQuiet EXCEPT !.phase = "paused", !.rem = marg,
                                     !.solo = Quiescent,
                                     !.live = is_running /\ run.completes = 0]
    /\ UNCHANGED <<remaining_seconds, warning_seconds, countdown_timer, timers,
                   run, log>>
    /\ UNCHANGED notSched

\* ------------------------------------------------ ShutdownScheduler.resume
\* faulty variant: the test does not look at _is_running
ResumeGuardRemainingOnly == remaining_seconds > 0

\* scheduler.py:143
ResumeGuard == remaining_seconds > 0 /\ ~is_running

\* scheduler.py:143: the unlocked test
ResumeCall ==
    /\ caller.pc = "idle"
    /\ run' = [RunOp EXCEPT !.noop = ~ResumeGuard,
                             !.resumed = quiet.phase = "paused" /\ quiet.live]
    /\ log' = <<>>
    /\ IF ResumeGuard
       THEN /\ caller' = [caller EXCEPT !.pc = "r144"]
            /\ mop' = "resume"
            /\ quiet' = IF quiet.phase = "paused"
                        THEN [quiet EXCEPT !.phase = "resuming"]
                        ELSE quiet
       ELSE /\ UNCHANGED <<caller, mop>>
            /\ quiet' = IF quiet.phase = "paused" THEN NoQuiet ELSE quiet
    /\ UNCHANGED <<remaining_seconds, is_running, warning_seconds, countdown_timer,
                   timers, marg>>
    /\ UNCHANGED notSched

\* scheduler.py:144, then the call at line 145
ResumeFlag ==
    /\ caller.pc = "r144"
    /\ is_running' = TRUE
    /\ caller' = [caller EXCEPT !.pc = "l68"]
    /\ UNCHANGED <<remaining_seconds, warning_seconds, countdown_timer, timers,
                   mop, marg, run, log, quiet>>
    /\ UNCHANGED notSched

\* ----------------------------------- ShutdownScheduler._start_countdown_tick
\* the caller is back from start() or resume()
CallerBack(d) ==
    /\ mop' = IF d.who = "caller" THEN "none" ELSE mop
    /\ marg' = IF d.who = "caller" THEN 0 ELSE marg
    /\ quiet' = IF d.who = "caller" /\ quiet.phase = "resuming" THEN NoQuiet ELSE quiet

\* thread d is back in the callback from which it called the scheduler
Resumed(d) ==
    [d EXCEPT !.pc = d.outer[1].pc, !.rem = d.outer[1].rem,
              !.wsec = d.outer[1].wsec, !.outer = <<>>]

\* thread d returns from _start_countdown_tick: a Timer thread ends, the
\* caller returns from start() or resume(), and a thread that called start()
\* from a callback is back in that callback
Leave(d) ==
    IF d.outer # <<>>
    THEN /\ Put(d, Resumed(d))
         /\ UNCHANGED <<mop, marg, quiet>>
    ELSE /\ IF d.who = "caller"
            THEN caller' = IdleCaller /\ timers' = timers
            ELSE timers' = timers (-) One(d) /\ caller' = caller
         /\ CallerBack(d)

\* a Timer's function starts executing, one second after Timer.start()
Fire(d) ==
    /\ d.pc = "pending"
    /\ Goto(d, "l68")
    /\ UNCHANGED <<remaining_seconds, is_running, warning_seconds, countdown_timer,
                   mop, marg, run, log, quiet>>
    /\ UNCHANGED notSched

\* scheduler.py:68-69: the unlocked test of _is_running
TickCheck(d) ==
    /\ d.pc = "l68"
    /\ IF ~is_running
       THEN Leave(d)
       ELSE /\ Goto(d, "l79")
            /\ UNCHANGED <<mop, marg, quiet>>
    /\ UNCHANGED <<remaining_seconds, is_running, warning_seconds, countdown_timer,
                   run, log>>
    /\ UNCHANGED notSched

\* faulty variant: the test of line 80 written as `< 0`
ExpiredStrict(r) == r < 0

\* scheduler.py:80
Expired(r) == r <= 0

\* faulty variant: the tick carries the value left after the decrement
CapturedAfterDecrement(r) == r - 1

\* scheduler.py:85: the value the tick callback will carry
Captured(r) == r

\* faulty variant: the stored value is decremented by two
DecrementByTwo(r) == r - 2

\* scheduler.py:89
Decrement(r) == r - 1

\* scheduler.py:79-89, the locked block
TickLock(d) ==
    /\ d.pc = "l79"
    /\ IF Expired(remaining_seconds)
       THEN /\ is_running' = FALSE
            /\ Goto(d, "l93")
            /\ UNCHANGED remaining_seconds
       ELSE /\ Put(d, [d EXCEPT !.pc = "l101",
                                !.rem = Captured(remaining_seconds),
                                !.wsec = warning_seconds])
            /\ remaining_seconds' = Decrement(remaining_seconds)
            /\ UNCHANGED is_running
    /\ UNCHANGED <<warning_seconds, countdown_timer, mop, marg, run, log, quiet>>
    /\ UNCHANGED notSched

\* scheduler.py:92-95: on_complete() is entered
CompleteCall(d) ==
    /\ d.pc = "l93"
    /\ Goto(d, "in_complete")
    /\ IF on_complete_callback
       THEN /\ run' = RunNote("complete")
            /\ log' = LogNote("complete", 0)
            /\ quiet' = QuietNote("complete")
       ELSE UNCHANGED <<run, log, quiet>>
    /\ UNCHANGED <<remaining_seconds, is_running, warning_seconds, countdown_timer,
                   mop, marg>>
    /\ UNCHANGED notSched

\* scheduler.py:95-99: on_complete() returns; return
CompleteReturn(d) ==
    /\ d.pc = "in_complete"
    /\ Leave(d)
    /\ UNCHANGED <<remaining_seconds, is_running, warning_seconds, countdown_timer,
                   run, log>>
    /\ UNCHANGED notSched

\* scheduler.py:101-103: on_tick(remaining) is entered
TickCall(d) ==
    /\ d.pc = "l101"
    /\ Goto(d, "in_tick")
    /\ IF on_tick_callback
       THEN /\ log' = LogNote("tick", d.rem)
            /\ quiet' = QuietNote("tick")
       ELSE UNCHANGED <<log, quiet>>
    /\ UNCHANGED <<remaining_seconds, is_running, warning_seconds, countdown_timer,
                   mop, marg, run>>
    /\ UNCHANGED notSched

\* faulty variant: the warning test made on the value left after the decrement
ShouldWarnAfterDecrement(remaining, warningSeconds) ==
    remaining - 1 = warningSeconds /\ on_warning_callback

\* faulty variant: the warning test written as `<=`
ShouldWarnAtOrBelow(remaining, warningSeconds) ==
    remaining <= warningSeconds /\ on_warning_callback

\* scheduler.py:108: the test that guards the warning callback
ShouldWarn(remaining, warningSeconds) ==
    remaining = warningSeconds /\ on_warning_callback

\* scheduler.py:103-112: on_tick returns, then the warning test and
\* callback, which returns; the locals are not read after line 112
WarningStep(d) ==
    /\ d.pc = "in_tick"
    /\ Put(d, [d EXCEPT !.pc = "l115", !.rem = 0, !.wsec = 0])
    /\ IF ShouldWarn(d.rem, d.wsec)
       THEN /\ log' = LogNote("warning", d.rem)
            /\ quiet' = QuietNote("warning")
            /\ run' = RunNote("warning")
       ELSE UNCHANGED <<log, quiet, run>>
    /\ UNCHANGED <<remaining_seconds, is_running, warning_seconds, countdown_timer,
                   mop, marg>>
    /\ UNCHANGED notSched

\* scheduler.py:115: the unlocked test of _is_running
Reschedule(d) ==
    /\ d.pc = "l115"
    /\ IF is_running
       THEN /\ Goto(d, "l116")
            /\ UNCHANGED <<mop, marg, quiet>>
       ELSE Leave(d)
    /\ UNCHANGED <<remaining_seconds, is_running, warning_seconds, countdown_timer,
                   run, log>>
    /\ UNCHANGED notSched

\* scheduler.py:116-118: a new Timer is created, stored in _countdown_timer
\* and started; return.  (The step waits while MaxTimers Timers are alive.)
Schedule(d) ==
    /\ d.pc = "l116"
    /\ countdown_timer' = "Timer"
    /\ IF d.outer # <<>>
       THEN /\ BagCardinality(timers) < MaxTimers
            /\ IF d.who = "caller"
               THEN /\ caller' = Resumed(d)
                    /\ timers' = Unref(timers) (+) One(PendingTimer)
               ELSE /\ caller' = caller
                    /\ timers' = Unref((timers (-) One(d)) (+) One(Resumed(d)))
                                    (+) One(PendingTimer)
            /\ UNCHANGED <<mop, marg, quiet>>
       ELSE /\ LET rest == IF d.who = "caller" THEN timers ELSE timers (-) One(d)
               IN /\ BagCardinality(rest) < MaxTimers
                  /\ timers' = Unref(rest) (+) One(PendingTimer)
            /\ caller' = IF d.who = "caller" THEN IdleCaller ELSE caller
            /\ CallerBack(d)
    /\ UNCHANGED <<remaining_seconds, is_running, warning_seconds, run, log>>
    /\ UNCHANGED notSched

\* several notifications at once, as LogNote
LogNotes(notes) ==
    IF run.started /\ run.clean /\ ~run.ops THEN log \o notes ELSE log

\* faulty variant: the callbacks are called outside any try statement
PropagatesUncaught == TRUE

\* scheduler.py:97, 104, 111: `except Exception` handles what a callback
\* raised and prints it, so the exception does not leave the try statement
Propagates == FALSE

\* scheduler.py:102-112 when on_tick (inTick), on_warning (inWarning) or both
\* raise an Exception
TickRaises(d, inTick, inWarning) ==
    /\ d.pc = "in_tick"
    /\ inTick \/ inWarning
    /\ inTick => on_tick_callback
    /\ inWarning => ShouldWarn(d.rem, d.wsec)
    /\ LET tickNotes == IF inTick THEN <<Note("raise", d.rem)>> ELSE <<>>
           warningNotes ==
               (IF ShouldWarn(d.rem, d.wsec)
                THEN <<Note("warning", d.rem)>> ELSE <<>>)
               \o (IF inWarning THEN <<Note("raise", d.rem)>> ELSE <<>>)
       IN IF inTick /\ Propagates
          THEN /\ Leave(d)
               /\ log' = LogNotes(tickNotes)
               /\ run' = run
          ELSE /\ log' = LogNotes(tickNotes \o warningNotes)
               /\ run' = IF ShouldWarn(d.rem, d.wsec) THEN RunNote("warning") ELSE run
               /\ IF inWarning /\ Propagates
                  THEN Leave(d)
                  ELSE /\ Put(d, [d EXCEPT !.pc = "l115", !.rem = 0, !.wsec = 0])
                       /\ quiet' = IF ShouldWarn(d.rem, d.wsec)
                                   THEN QuietNote("warning") ELSE quiet
                       /\ UNCHANGED <<mop, marg>>
    /\ UNCHANGED <<remaining_seconds, is_running, warning_seconds, countdown_timer>>
    /\ UNCHANGED notSched

\* scheduler.py:95-99 when on_complete raises an Exception: handled, return
CompleteRaises(d) ==
    /\ d.pc = "in_complete"
    /\ on_complete_callback
    /\ log' = LogNotes(<<Note("raise", 0)>>)
    /\ Leave(d)
    /\ UNCHANGED <<remaining_seconds, is_running, warning_seconds, countdown_timer,
                   run>>
    /\ UNCHANGED notSched

TickSteps ==
    \/ \E d \in Running : Fire(d)
    \/ \E d \in Running : TickCheck(d)
    \/ \E d \in Running : TickLock(d)
    \/ \E d \in Running : CompleteCall(d)
    \/ \E d \in Running : CompleteReturn(d)
    \/ \E d \in Running : TickCall(d)
    \/ \E d \in Running : WarningStep(d)
    \/ \E d \in Running : Reschedule(d)
    \/ \E d \in Running : Schedule(d)

StartSteps ==
    \/ \E n \in 0..MaxSeconds : StartCall(n)
    \/ StartCancel
    \/ StartLock

\* ------------------------------- callbacks that call back into the scheduler
\* A tick, warning or complete callback may call cancel(), pause() or start()
\* of the scheduler that is running it.  The call is made on the thread that
\* runs the callback, between the steps that enter and leave the callback; a
\* call made by on_warning has the effect of one made by on_tick, because
\* the warning test reads locals only.  Each callback makes at most one call,
\* and start() is called only by callbacks of a countdown that was started
\* from outside (run.clean), so that a behaviour has at most one such start().

\* the callbacks
CallbackPcs == {"in_tick", "in_complete"}

\* faulty variant: the callbacks are called inside the `with self._lock` block
LockHeldAtCallbacks == {"in_tick", "in_complete"}

\* scheduler.py:79-91: the statements outside a step at which a thread holds
\* _lock.  The block of lines 79-89 is left before line 91, so there is none.
LockHeldAt == {}

\* some thread holds _lock (threading.Lock is not reentrant: this includes
\* the thread that asks for it)
LockHeld ==
    \E e \in Running :
        \/ e.pc \in LockHeldAt
        \/ e.outer # <<>> /\ e.outer[1].pc \in LockHeldAt

Frame(d) == [pc |-> d.pc, rem |-> d.rem, wsec |-> d.wsec]

\* the callback thread d runs is about to call a public method
CallsBack(d) == d.pc \in CallbackPcs /\ d.cc = "none" /\ d.outer = <<>>

\* `with self._lock` never returns
Blocks(d, m) ==
    Put(d, [d EXCEPT !.pc = "blocked", !.cc = m,
                     !.outer = IF d.outer = <<>> THEN <<Frame(d)>> ELSE d.outer])

\* scheduler.py:122-132 executed by thread d, which becomes d2
CancelBy(d, d2) ==
    /\ is_running' = FALSE
    /\ remaining_seconds' = CancelRemaining
    /\ countdown_timer' = "None"
    /\ IF d.who = "caller"
       THEN /\ caller' = d2
            /\ timers' = Unref(TimerCancel(timers))
       ELSE /\ caller' = caller
            /\ timers' = Unref(TimerCancel((timers (-) One(d)) (+) One(d2)))

\* scheduler.py:120-132: cancel() called by the callback
CallbackCancel(d) ==
    /\ CallsBack(d)
    /\ IF LockHeld
       THEN /\ Blocks(d, "cancel")
            /\ UNCHANGED <<remaining_seconds, is_running, countdown_timer, run, log,
                           quiet>>
       ELSE /\ CancelBy(d, [d EXCEPT !.cc = "cancel"])
            /\ run' = [RunOp EXCEPT !.stopped = TRUE]
            /\ log' = <<>>
            /\ quiet' = IF quiet.phase = "cancelled" THEN quiet
                        ELSE [NoQuiet EXCEPT !.phase = "cancelled",
                                             !.rem = remaining_seconds]
    /\ UNCHANGED <<warning_seconds, mop, marg>>
    /\ UNCHANGED notSched

\* scheduler.py:136-138: pause() called by the callback (no lock); the
\* thread keeps remaining_seconds at the call in rem
CallbackPauseCall(d) ==
    /\ CallsBack(d)
    /\ LET d2 == [d EXCEPT !.pc = "cb139", !.cc = "pause", !.rem = remaining_seconds,
                           !.outer = <<Frame(d)>>]
       IN IF d.who = "caller"
          THEN /\ caller' = d2
               /\ timers' = Unref(TimerCancel(timers))
          ELSE /\ caller' = caller
               /\ timers' = Unref(TimerCancel((timers (-) One(d)) (+) One(d2)))
    /\ countdown_timer' = "None"
    /\ run' = RunOp
    /\ log' = <<>>
    /\ UNCHANGED <<remaining_seconds, is_running, warning_seconds, mop, marg, quiet>>
    /\ UNCHANGED notSched

\* scheduler.py:139 (no lock), and the return into the callback
CallbackPauseFlag(d) ==
    /\ d.pc = "cb139"
    /\ is_running' = FALSE
    /\ Put(d, Resumed(d))
    /\ quiet' = IF quiet.phase \in {"cancelled", "paused"} THEN quiet
                ELSE [NoQuiet EXCEPT !.phase = "paused", !.rem = d.rem,
                                     !.live = is_running /\ run.completes = 0]
    /\ UNCHANGED <<remaining_seconds, warning_seconds, countdown_timer, mop, marg,
                   run, log>>
    /\ UNCHANGED notSched

\* scheduler.py:57: start(n) called by the callback; the thread keeps the
\* argument in rem
CallbackStartCall(d, n) ==
    /\ CallsBack(d)
    /\ run.clean
    /\ Put(d, [d EXCEPT !.pc = IF is_running THEN "cb58" ELSE "cb60",
                        !.cc = "start", !.rem = n, !.outer = <<Frame(d)>>])
    /\ run' = [RunOp EXCEPT !.stopped = TRUE]
    /\ log' = <<>>
    /\ UNCHANGED <<remaining_seconds, is_running, warning_seconds, countdown_timer,
                   mop, marg, quiet>>
    /\ UNCHANGED notSched

\* scheduler.py:58: self.cancel()
CallbackStartCancel(d) ==
    /\ d.pc = "cb58"
    /\ IF LockHeld
       THEN /\ Blocks(d, "start")
            /\ UNCHANGED <<remaining_seconds, is_running, countdown_timer>>
       ELSE CancelBy(d, [d EXCEPT !.pc = "cb60"])
    /\ UNCHANGED <<warning_seconds, mop, marg, run, log, quiet>>
    /\ UNCHANGED notSched

\* scheduler.py:60-62 (locked), then the call at line 64: the thread runs
\* a tick below the callback
CallbackStartLock(d) ==
    /\ d.pc = "cb60"
    /\ IF LockHeld
       THEN /\ Blocks(d, "start")
            /\ UNCHANGED <<remaining_seconds, is_running, run, log, quiet>>
       ELSE /\ remaining_seconds' = d.rem
            /\ is_running' = TRUE
            /\ Put(d, [d EXCEPT !.pc = "l68", !.rem = 0])
            /\ run' = [seconds |-> d.rem, clean |-> FALSE, ops |-> FALSE,
                       completes |-> 0, started |-> TRUE, noop |-> FALSE,
                       stopped |-> FALSE, resumed |-> FALSE, warnings |-> 0]
            /\ log' = <<>>
            /\ quiet' = NoQuiet
    /\ UNCHANGED <<warning_seconds, countdown_timer, mop, marg>>
    /\ UNCHANGED notSched

CallbackSteps ==
    \/ \E d \in Running : CallbackCancel(d)
    \/ \E d \in Running : CallbackPauseCall(d)
    \/ \E d \in Running : CallbackPauseFlag(d)
    \/ \E d \in Running : \E n \in 0..MaxSeconds : CallbackStartCall(d, n)
    \/ \E d \in Running : CallbackStartCancel(d)
    \/ \E d \in Running : CallbackStartLock(d)

\* ===================================================== ActionExecutor
\* src/src/automation/executor.py.  The worker thread runs execute_sequence;
\* stop() is called from another thread.  The sequence is the list of the
\* actions' `enabled` flags; whether the InputDriver raises on an enabled
\* action is decided when the action is dispatched.
MaxActions == 2      \* actions in a sequence

Sequences == UNION {[1..n -> BOOLEAN] : n \in 0..MaxActions}

ExecInit ==
    /\ ex_running = FALSE
    /\ epc = "idle"
    /\ eseq = <<>>
    /\ eidx = 0
    /\ esuccess = TRUE
    /\ eret = "none"
    /\ elog = <<>>
    /\ estop = -1
    /\ eearly = "no"

Count(k) == Len(SelectSeq(elog, LAMBDA e : e.k = k))

\* faulty variant: execute_sequence does not set the flag
RunningOnEntryKept == ex_running

\* executor.py:136: self._is_running = True
RunningOnEntry == TRUE

\* executor.py:136-137: execute_sequence(sequence) is entered
Enter(q) ==
    /\ epc = "idle"
    /\ eseq' = q
    /\ ex_running' = RunningOnEntry
    /\ esuccess' = TRUE
    /\ eidx' = 0
    /\ eret' = "none"
    /\ elog' = <<>>
    /\ estop' = -1
    /\ eearly' = IF eearly = "pending" THEN "yes" ELSE "no"
    /\ epc' = "l139"
    /\ UNCHANGED notExec

\* faulty variant: line 142 written as `return False` instead of `break`
LoopHeadReturns ==
    /\ epc = "l139"
    /\ IF eidx >= Len(eseq)
       THEN epc' = "l155" /\ UNCHANGED <<esuccess, eret>>
       ELSE IF ~ex_running
            THEN epc' = "idle" /\ esuccess' = FALSE /\ eret' = "False"
            ELSE epc' = "l144" /\ UNCHANGED <<esuccess, eret>>
    /\ UNCHANGED <<ex_running, eseq, eidx, elog, estop, eearly>>
    /\ UNCHANGED notExec

\* executor.py:139-142: the next iteration, and its test of _is_running
LoopHead ==
    /\ epc = "l139"
    /\ IF eidx >= Len(eseq)
       THEN epc' = "l155" /\ UNCHANGED esuccess
       ELSE IF ~ex_running
            THEN epc' = "l155" /\ esuccess' = FALSE
            ELSE epc' = "l144" /\ UNCHANGED esuccess
    /\ UNCHANGED <<ex_running, eseq, eidx, eret, elog, estop, eearly>>
    /\ UNCHANGED notExec

\* executor.py:144-145: on_action_start(action, index)
ActionStart ==
    /\ epc = "l144"
    /\ elog' = Append(elog, Note("start", eidx))
    /\ epc' = "l147"
    /\ UNCHANGED <<ex_running, eseq, eidx, esuccess, eret, estop, eearly>>
    /\ UNCHANGED notExec

\* faulty variant: lines 50-51 missing, a disabled action is dispatched too
DispatchedAlways(enabled) == TRUE

\* executor.py:50-51: execute_action goes on to the driver (or the delay)
\* only for an enabled action
Dispatched(enabled) == enabled

\* faulty variant: `success = result`, a later success overwrites an
\* earlier failure
LastResult(success, result) == result

\* executor.py:152-153: `if not result: success = False`
Success(success, result) == success /\ result

\* faulty variant: on_action_complete is called before execute_action
RunNotesCompleteFirst(dispatched, result, index) ==
    <<Note("complete", index)>>
    \o (IF dispatched THEN <<Note("dispatch", index)>> ELSE <<>>)
    \o (IF result THEN <<>> ELSE <<Note("fail", index), Note("error", index)>>)

\* executor.py:147-150: what execute_action (the dispatch; when the driver
\* raises, on_error at lines 121-124) and then on_action_complete add to the
\* notifications
RunNotes(dispatched, result, index) ==
    (IF dispatched THEN <<Note("dispatch", index)>> ELSE <<>>)
    \o (IF result THEN <<>> ELSE <<Note("fail", index), Note("error", index)>>)
    \o <<Note("complete", index)>>

\* executor.py:147-153: execute_action (lines 40-124: a disabled action
\* returns True at once; an enabled one is dispatched, and if the driver
\* raises ("fail"), on_error is called ("error") and the result is False),
\* on_action_complete, and the update of `success`
ActionRunBody(ok) ==
    /\ epc = "l147"
    /\ LET dispatched == Dispatched(eseq[eidx + 1])
           result == ~dispatched \/ ok
       IN /\ (~dispatched => ok)
          /\ elog' = elog \o RunNotes(dispatched, result, eidx)
          /\ esuccess' = Success(esuccess, result)
    /\ eidx' = eidx + 1
    /\ epc' = "l139"
    /\ UNCHANGED <<ex_running, eseq, eret, estop, eearly>>

ActionRun(ok) ==
    /\ ActionRunBody(ok)
    /\ UNCHANGED notExec

\* executor.py:155
Finish ==
    /\ epc = "l155"
    /\ ex_running' = FALSE
    /\ epc' = "l157"
    /\ UNCHANGED <<eseq, eidx, esuccess, eret, elog, estop, eearly>>
    /\ UNCHANGED notExec

\* executor.py:157-160: on_sequence_complete(), return success
SequenceComplete ==
    /\ epc = "l157"
    /\ elog' = Append(elog, Note("sequence_complete", 0))
    /\ eret' = IF esuccess THEN "True" ELSE "False"
    /\ epc' = "idle"
    /\ UNCHANGED <<ex_running, eseq, eidx, esuccess, estop, eearly>>
    /\ UNCHANGED notExec

\* executor.py:162-164: stop(), from another thread
Stop ==
    /\ ex_running' = FALSE
    /\ estop' = IF epc # "idle" /\ estop = -1 THEN Count("start") ELSE estop
    /\ eearly' = IF epc = "idle" THEN "pending" ELSE eearly
    /\ UNCHANGED <<epc, eseq, eidx, esuccess, eret, elog>>
    /\ UNCHANGED notExec

ExecNext ==
    \/ \E q \in Sequences : Enter(q)
    \/ LoopHead
    \/ ActionStart
    \/ \E ok \in BOOLEAN : ActionRun(ok)
    \/ Finish
    \/ SequenceComplete
    \/ Stop

\* =========================================================== MainWindow
\* src/src/ui/main_window.py.  The scheduler's on_complete callback emits the
\* signal countdown_complete; its slot _execute_shutdown runs on the UI
\* thread and either issues the power request or starts an ExecutionThread
\* whose signal sequence_completed is connected to _do_shutdown.  Signals
\* emitted on other threads are queued to the UI thread and handled in order.
MaxThreads == 2        \* ExecutionThread objects created
MaxCompletions == 2    \* countdown completions signalled

Signal(e, t) == [e |-> e, t |-> t]

\* main_window.py:484-500
WinInit ==
    /\ wthreads = <<>>
    /\ wcurrent = 0
    /\ wqueue = <<>>
    /\ wreq = <<>>
    /\ wcompleted = 0
    /\ wcancel = [at |-> -1, issued |-> 0]

\* faulty variant: one ActionExecutor shared by all ExecutionThreads
SharedExecutor(t) == 1

\* main_window.py:450: ExecutionThread.__init__ makes an ActionExecutor of
\* its own; executors are named after their thread
NewExecutor(t) == t

\* main_window.py:447-450 and QThread.start(): run() has not begun yet
NewThread(purpose) ==
    [state |-> "started", purpose |-> purpose,
     executor |-> NewExecutor(Len(wthreads) + 1), stopped |-> FALSE]

\* QThread.isRunning()
IsRunning(t) == wthreads[t].state \in {"started", "executing"}

\* main_window.py:838-840: on_countdown_complete, on the scheduler's thread
CountdownComplete ==
    /\ wcompleted < MaxCompletions
    /\ wcompleted' = wcompleted + 1
    /\ wqueue' = Append(wqueue, Signal("countdown_complete", 0))
    /\ UNCHANGED <<wthreads, wcurrent, wreq, wcancel>>
    /\ UNCHANGED notWin

\* faulty variant: the `else` of line 852 missing
DirectRequestsAlways(withActions) == 1

\* main_window.py:847-853: the power requests _execute_shutdown issues itself
DirectRequests(withActions) == IF withActions THEN 0 ELSE 1

\* main_window.py:842-853: _execute_shutdown; withActions is the test of
\* line 847, run_actions_check.isChecked() and len(sequence.actions) > 0
ExecuteShutdown(withActions) ==
    /\ wqueue # <<>> /\ Head(wqueue).e = "countdown_complete"
    /\ wqueue' = Tail(wqueue)
    /\ IF withActions
       THEN /\ Len(wthreads) < MaxThreads
            /\ wthreads' = Append(wthreads, NewThread("shutdown"))
            /\ wcurrent' = Len(wthreads) + 1
            /\ wreq' = Append(wreq, [actions |-> TRUE, thread |-> Len(wthreads) + 1,
                                     issued |-> DirectRequests(withActions)])
       ELSE /\ wreq' = Append(wreq, [actions |-> FALSE, thread |-> 0,
                                     issued |-> DirectRequests(withActions)])
            /\ UNCHANGED <<wthreads, wcurrent>>
    /\ UNCHANGED <<wcompleted, wcancel>>
    /\ UNCHANGED notWin

\* main_window.py:975-988: _run_test
RunTest ==
    /\ Len(wthreads) < MaxThreads
    /\ wthreads' = Append(wthreads, NewThread("test"))
    /\ wcurrent' = Len(wthreads) + 1
    /\ UNCHANGED <<wqueue, wreq, wcompleted, wcancel>>
    /\ UNCHANGED notWin

\* main_window.py:452-467: run() reaches execute_sequence
ThreadEnter(t) ==
    /\ wthreads[t].state = "started"
    /\ wthreads' = [wthreads EXCEPT ![t].state = "executing"]
    /\ UNCHANGED <<wcurrent, wqueue, wreq, wcompleted, wcancel>>
    /\ UNCHANGED notWin

\* main_window.py:467-468: execute_sequence returns, sequence_completed.emit()
ThreadFinish(t) ==
    /\ wthreads[t].state = "executing"
    /\ wthreads' = [wthreads EXCEPT ![t].state = "emitted"]
    /\ wqueue' = Append(wqueue, Signal("sequence_completed", t))
    /\ UNCHANGED <<wcurrent, wreq, wcompleted, wcancel>>
    /\ UNCHANGED notWin

\* main_window.py:850, 855-862 (and 982-984 for a test run): the slot
\* connected to sequence_completed; for a shutdown run it is _do_shutdown
SequenceCompletedSlot ==
    /\ wqueue # <<>> /\ Head(wqueue).e = "sequence_completed"
    /\ LET t == Head(wqueue).t
       IN /\ wthreads' = [wthreads EXCEPT ![t].state = "done"]
          /\ wreq' = [i \in 1..Len(wreq) |->
                        IF wthreads[t].purpose = "shutdown" /\ wreq[i].thread = t
                        THEN [wreq[i] EXCEPT !.issued = @ + 1]
                        ELSE wreq[i]]
    /\ wqueue' = Tail(wqueue)
    /\ UNCHANGED <<wcurrent, wcompleted, wcancel>>
    /\ UNCHANGED notWin

\* calls of ShutdownController.shutdown made for the first n completions
\* that _execute_shutdown has handled
RECURSIVE Issued(_)
Issued(n) == IF n = 0 THEN 0 ELSE Issued(n - 1) + wreq[n].issued

\* main_window.py:779-798: cancel_countdown; lines 790-791 stop the
\* executor of the ExecutionThread that self.execution_thread refers to
CancelCountdown ==
    /\ wthreads' = IF wcurrent # 0 /\ IsRunning(wcurrent)
                   THEN [wthreads EXCEPT ![wcurrent].stopped = TRUE]
                   ELSE wthreads
    /\ wcancel' = [at |-> wcompleted, issued |-> Issued(Len(wreq))]
    /\ UNCHANGED <<wcurrent, wqueue, wreq, wcompleted>>
    /\ UNCHANGED notWin

WinNext ==
    \/ CountdownComplete
    \/ \E withActions \in BOOLEAN : ExecuteShutdown(withActions)
    \/ RunTest
    \/ \E t \in 1..Len(wthreads) : ThreadEnter(t)
    \/ \E t \in 1..Len(wthreads) : ThreadFinish(t)
    \/ SequenceCompletedSlot
    \/ CancelCountdown

\* ============================================== TypeText and the clipboard
\* executor.py:40-124 for one KEYBOARD_TYPE action, and type_text /
\* type_unicode of keyboard_control.py.  A text is a sequence of code points.
\* The clipboard holds a text or something that is not text (an image, a
\* file list); pyperclip.paste() returns the text, and the empty string when
\* the clipboard holds no text; pyperclip.copy(t) makes the clipboard hold
\* the text t.  Every driver call (pyperclip, pyautogui) may raise.
MaxText == 2          \* characters in a text

\* a line feed, `a`, DEL and e-acute stand for the control characters, the
\* printable ASCII characters, code point 127 and the non-ASCII characters
Chars == {10, 97, 127, 233}

Texts == UNION {[1..n -> Chars] : n \in 0..MaxText}

TextClip(t) == [kind |-> "text", v |-> t]
Image == [kind |-> "image", v |-> <<>>]
Clipboards == {Image, TextClip(<<>>), TextClip(<<97>>)}

\* pyperclip.paste() (keyboard_control.py:70)
Paste(c) == IF c.kind = "text" THEN c.v ELSE <<>>

\* pyperclip.copy(t) (keyboard_control.py:76, 81, 85)
Copy(t) == TextClip(t)

\* executor.py:100
MaxAscii == 127

\* faulty variant: the test of line 100 written as `>=`
UsesClipboardFromDel(text) == \E i \in 1..Len(text) : text[i] >= MaxAscii

\* executor.py:100: any(ord(c) > 127 for c in text)
UsesClipboard(text) == \E i \in 1..Len(text) : text[i] > MaxAscii

NoAction == [enabled |-> FALSE, text |-> <<>>, interval |-> 0]
NoHist == [clip |-> TextClip(<<>>), calls |-> <<>>, result |-> "none"]

KbdInit ==
    /\ kact = NoAction
    /\ kpc = "idle"
    /\ kclip = TextClip(<<>>)
    /\ ksaved = <<>>
    /\ ki = 0
    /\ kraised = FALSE
    /\ khist = NoHist

Called(name) == [khist EXCEPT !.calls = Append(@, name)]

\* executor.py:40-51: execute_action(action) with the clipboard holding c
ExecuteAction(a, c) ==
    /\ kpc = "idle"
    /\ kact' = a
    /\ kclip' = c
    /\ ksaved' = <<>>
    /\ ki' = 0
    /\ kraised' = FALSE
    /\ khist' = [NoHist EXCEPT !.clip = c]
    /\ kpc' = IF a.enabled THEN "l96" ELSE "l119"
    /\ UNCHANGED notKbd

\* executor.py:96-103
TypeDispatch ==
    /\ kpc = "l96"
    /\ IF UsesClipboard(kact.text)
       THEN kpc' = "u70" /\ khist' = Called("type_unicode")
       ELSE kpc' = "t57" /\ khist' = Called("type_text")
    /\ UNCHANGED <<kact, kclip, ksaved, ki, kraised>>
    /\ UNCHANGED notKbd

\* keyboard_control.py:57: pyautogui.typewrite
TypeText(ok) ==
    /\ kpc = "t57"
    /\ khist' = Called("typewrite")
    /\ kpc' = IF ok THEN "l119" ELSE "l121"
    /\ UNCHANGED <<kact, kclip, ksaved, ki, kraised>>
    /\ UNCHANGED notKbd

\* keyboard_control.py:70-73: the clipboard is read, then the try block is
\* entered; a failure of paste() leaves through the caller's except
SaveClipboard(ok) ==
    /\ kpc = "u70"
    /\ khist' = Called("paste")
    /\ IF ok
       THEN /\ ksaved' = Paste(kclip)
            /\ kpc' = IF kact.interval > 0 THEN "u75" ELSE "u81"
       ELSE /\ kpc' = "l121"
            /\ UNCHANGED ksaved
    /\ UNCHANGED <<kact, kclip, ki, kraised>>
    /\ UNCHANGED notKbd

\* keyboard_control.py:75: the loop over the characters
CharLoop ==
    /\ kpc = "u75"
    /\ kpc' = IF ki < Len(kact.text) THEN "u76" ELSE "u85"
    /\ UNCHANGED <<kact, kclip, ksaved, ki, kraised, khist>>
    /\ UNCHANGED notKbd

\* keyboard_control.py:76: pyperclip.copy(char)
CopyChar(ok) ==
    /\ kpc = "u76"
    /\ khist' = Called("copy")
    /\ IF ok
       THEN kclip' = Copy(<<kact.text[ki + 1]>>) /\ kpc' = "u77" /\ UNCHANGED kraised
       ELSE kraised' = TRUE /\ kpc' = "u85" /\ UNCHANGED kclip
    /\ UNCHANGED <<kact, ksaved, ki>>
    /\ UNCHANGED notKbd

\* keyboard_control.py:77-78: pyautogui.hotkey('ctrl', 'v'), time.sleep
PasteChar(ok) ==
    /\ kpc = "u77"
    /\ khist' = Called("hotkey")
    /\ IF ok
       THEN ki' = ki + 1 /\ kpc' = "u75" /\ UNCHANGED kraised
       ELSE kraised' = TRUE /\ kpc' = "u85" /\ UNCHANGED ki
    /\ UNCHANGED <<kact, kclip, ksaved>>
    /\ UNCHANGED notKbd

\* keyboard_control.py:81: pyperclip.copy(text)
CopyAll(ok) ==
    /\ kpc = "u81"
    /\ khist' = Called("copy")
    /\ IF ok
       THEN kclip' = Copy(kact.text) /\ kpc' = "u82" /\ UNCHANGED kraised
       ELSE kraised' = TRUE /\ kpc' = "u85" /\ UNCHANGED kclip
    /\ UNCHANGED <<kact, ksaved, ki>>
    /\ UNCHANGED notKbd

\* keyboard_control.py:82: pyautogui.hotkey('ctrl', 'v')
PasteAll(ok) ==
    /\ kpc = "u82"
    /\ khist' = Called("hotkey")
    /\ kraised' = ~ok
    /\ kpc' = "u85"
    /\ UNCHANGED <<kact, kclip, ksaved, ki>>
    /\ UNCHANGED notKbd

\* keyboard_control.py:83-85: finally: pyperclip.copy(original_clipboard);
\* afterwards a propagating exception goes on to the caller's except
Restore(ok) ==
    /\ kpc = "u85"
    /\ khist' = Called("restore")
    /\ IF ok
       THEN kclip' = Copy(ksaved) /\ UNCHANGED kraised
       ELSE kraised' = TRUE /\ UNCHANGED kclip
    /\ kpc' = IF ok /\ ~kraised THEN "l119" ELSE "l121"
    /\ UNCHANGED <<kact, ksaved, ki>>
    /\ UNCHANGED notKbd

\* executor.py:119: return True
ReturnTrue ==
    /\ kpc = "l119"
    /\ khist' = [khist EXCEPT !.result = "True"]
    /\ kpc' = "idle"
    /\ UNCHANGED <<kact, kclip, ksaved, ki, kraised>>
    /\ UNCHANGED notKbd

\* executor.py:121-124: on_error(e, action), return False
ReturnFalse ==
    /\ kpc = "l121"
    /\ khist' = [Called("on_error") EXCEPT !.result = "False"]
    /\ kraised' = FALSE
    /\ kpc' = "idle"
    /\ UNCHANGED <<kact, kclip, ksaved, ki>>
    /\ UNCHANGED notKbd

KbdNext ==
    \/ \E e \in BOOLEAN, t \in Texts, n \in 0..1, c \in Clipboards :
           ExecuteAction([enabled |-> e, text |-> t, interval |-> n], c)
    \/ TypeDispatch
    \/ \E ok \in BOOLEAN : TypeText(ok)
    \/ \E ok \in BOOLEAN : SaveClipboard(ok)
    \/ CharLoop
    \/ \E ok \in BOOLEAN : CopyChar(ok)
    \/ \E ok \in BOOLEAN : PasteChar(ok)
    \/ \E ok \in BOOLEAN : CopyAll(ok)
    \/ \E ok \in BOOLEAN : PasteAll(ok)
    \/ \E ok \in BOOLEAN : Restore(ok)
    \/ ReturnTrue
    \/ ReturnFalse

\* =============================================== Action and ActionSequence
\* src/src/models/action.py, and the handlers of MainWindow that edit, save
\* and load MainWindow.sequence.

MaxLen == 2      \* actions added to one sequence through the dialog
MaxMoveLen == 5  \* length of the lists move_action is applied to
MaxIds == MaxLen    \* ids uuid4 hands out in one behaviour

\* ActionSequence.name's default, the literal of action.py:139
DefaultName == "unnamed"

\* Python values the dialog puts in params: int, float and None
PyInt(n) == [py |-> "int", v |-> <<n>>]
PyFloat(n) == [py |-> "float", v |-> <<n>>]
PyNone == [py |-> "NoneType", v |-> <<>>]

\* two members of the enum ActionType, and their values
ActionTypes == {"MOUSE_SCROLL", "DELAY"}
Value(t) == IF t = "MOUSE_SCROLL" THEN "mouse_scroll" ELSE "delay"
\* the enum's lookup by value, ActionType(data['action_type'])
ActionType(value) == CHOOSE t \in ActionTypes : Value(t) = value

\* dict.get(key, default)
Get(d, key, default) == IF key \in DOMAIN d THEN d[key] ELSE default

\* Action._generate_description: for a scroll the direction and the size of
\* params['amount'], for a delay params['seconds']; the words of the text
\* are kept as a tuple
GenerateDescription(action_type, params) ==
    IF action_type = "MOUSE_SCROLL"
    THEN LET amount == Get(params, "amount", PyInt(0)).v[1]
         IN <<"scroll", IF amount > 0 THEN "up" ELSE "down",
              IF amount >= 0 THEN amount ELSE -amount>>
    ELSE <<"wait", Get(params, "seconds", PyInt(0))>>

\* The dataclass Action with its __post_init__: an empty description is
\* replaced by the generated one.
Action(action_type, params, description, id, enabled) ==
    [id |-> id,
     action_type |-> action_type,
     params |-> params,
     description |-> IF description = <<>>
                     THEN GenerateDescription(action_type, params)
                     ELSE description,
     enabled |-> enabled]

\* str(uuid.uuid4())[:8]: the k-th id handed out from now on; ids handed
\* out are taken to be new ones
Uuid(k) == sissued + k

\* Action.to_dict
ToDict(a) ==
    [id |-> a.id,
     action_type |-> Value(a.action_type),
     params |-> a.params,
     description |-> a.description,
     enabled |-> a.enabled]

\* Action.from_dict
FromDict(data, uuid) ==
    Action(ActionType(data.action_type),
           Get(data, "params", <<>>),
           Get(data, "description", <<>>),
           Get(data, "id", uuid),
           Get(data, "enabled", TRUE))

\* ActionSequence.add_action
add_action(actions, action) == Append(actions, action)

\* ActionSequence.remove_action
remove_action(actions, action_id) ==
    SelectSeq(actions, LAMBDA a : a.id # action_id)

\* list.pop(i) and list.insert(i, x), i counted from 0
Pop(list, i) == SubSeq(list, 1, i) \o SubSeq(list, i + 2, Len(list))
Insert(list, i, x) == SubSeq(list, 1, i) \o <<x>> \o SubSeq(list, i + 1, Len(list))

\* faulty variant: the two actions change places
move_action_exchange(actions, from_index, to_index) ==
    IF /\ 0 <= from_index /\ from_index < Len(actions)
       /\ 0 <= to_index /\ to_index < Len(actions)
    THEN [actions EXCEPT ![from_index + 1] = actions[to_index + 1],
                         ![to_index + 1] = actions[from_index + 1]]
    ELSE actions

\* ActionSequence.move_action
move_action(actions, from_index, to_index) ==
    IF /\ 0 <= from_index /\ from_index < Len(actions)
       /\ 0 <= to_index /\ to_index < Len(actions)
    THEN Insert(Pop(actions, from_index), to_index, actions[from_index + 1])
    ELSE actions

\* ActionSequence.to_dict
SeqToDict(name, actions) ==
    [name |-> name,
     actions |-> [i \in 1..Len(actions) |-> ToDict(actions[i])]]

\* the loop of ActionSequence.from_dict; k counts the ids uuid4 supplies
RECURSIVE FromDicts(_, _, _)
FromDicts(actions, datas, k) ==
    IF datas = <<>>
    THEN actions
    ELSE FromDicts(add_action(actions, FromDict(Head(datas), Uuid(k))),
                   Tail(datas),
                   IF "id" \in DOMAIN Head(datas) THEN k ELSE k + 1)

\* ActionSequence.from_dict
SeqFromDict(data) ==
    [name |-> Get(data, "name", DefaultName),
     actions |-> FromDicts(<<>>, Get(data, "actions", <<>>), 1)]

\* ActionType(value) raises ValueError for a value no member has
KnownValue(value) == \E t \in ActionTypes : Value(t) = value

\* Action.from_dict raises: KeyError when data has no 'action_type',
\* ValueError when its value is not a kind
FromDictRaises(data) ==
    \/ "action_type" \notin DOMAIN data
    \/ ~KnownValue(data.action_type)

\* ActionSequence.from_dict raises when from_dict of one of the actions does
SeqFromDictRaises(data) ==
    LET datas == Get(data, "actions", <<>>)
    IN \E i \in 1..Len(datas) : FromDictRaises(datas[i])

\* how many ids uuid4 supplies while from_dict reads data
RECURSIVE Missing(_)
Missing(datas) ==
    IF datas = <<>>
    THEN 0
    ELSE (IF "id" \in DOMAIN Head(datas) THEN 0 ELSE 1) + Missing(Tail(datas))

\* ------------------------------------------------------------------- JSON
\* json.dump writes a Python value as JSON text, json.load reads it back:
\* int and float both become a JSON number, told apart by the fraction
\* part; None becomes null; str a string; bool true or false.
JString(s) == [json |-> "string", s |-> s]
JBool(b) == [json |-> IF b THEN "true" ELSE "false"]

DumpValue(p) ==
    CASE p.py = "int" -> [json |-> "number", frac |-> FALSE, v |-> p.v]
      [] p.py = "float" -> [json |-> "number", frac |-> TRUE, v |-> p.v]
      [] p.py = "NoneType" -> [json |-> "null", frac |-> FALSE, v |-> <<>>]

\* faulty variant: every number is read as a float
LoadValueAsFloat(j) ==
    CASE j.json = "number" -> PyFloat(j.v[1])
      [] j.json = "null" -> PyNone

LoadValue(j) ==
    CASE j.json = "number" -> IF j.frac THEN PyFloat(j.v[1]) ELSE PyInt(j.v[1])
      [] j.json = "null" -> PyNone

\* one action's dict
DumpObject(d) ==
    [k \in DOMAIN d |->
        CASE k = "params" -> [p \in DOMAIN d.params |-> DumpValue(d.params[p])]
          [] k = "enabled" -> JBool(d.enabled)
          [] OTHER -> JString(d[k])]

LoadObject(j) ==
    [k \in DOMAIN j |->
        CASE k = "params" -> [p \in DOMAIN j.params |-> LoadValue(j.params[p])]
          [] k = "enabled" -> j.enabled.json = "true"
          [] OTHER -> j[k].s]

\* json.dump(self.to_dict(), f) in save_to_file
Dump(d) ==
    [k \in DOMAIN d |->
        IF k = "actions"
        THEN [i \in 1..Len(d.actions) |-> DumpObject(d.actions[i])]
        ELSE JString(d[k])]

\* json.load(f) in load_from_file
Load(j) ==
    [k \in DOMAIN j |->
        IF k = "actions"
        THEN [i \in 1..Len(j.actions) |-> LoadObject(j.actions[i])]
        ELSE j[k].s]

\* ------------------------------------------------------------------ files
NoFile == [by |-> "nobody", text |-> <<>>, saved |-> <<>>, loaded |-> FALSE,
           error |-> FALSE]

\* Files not written by save_sequence that the load dialog can be pointed
\* at: one with two actions under one id, one with only the required key.
TwoUnderOneId ==
    [name |-> JString("copy"),
     actions |-> << DumpObject([id |-> 0, action_type |-> "delay",
                                params |-> [seconds |-> PyFloat(1)],
                                description |-> <<>>, enabled |-> TRUE]),
                    DumpObject([id |-> 0, action_type |-> "mouse_scroll",
                                params |-> [amount |-> PyInt(1)],
                                description |-> <<>>, enabled |-> FALSE]) >>]
RequiredOnly ==
    [actions |-> << [action_type |-> JString("delay")] >>]
\* Malformed ones: a second action of a kind the enum does not have, an
\* action without a kind, and a document without the actions list.
UnknownKind ==
    [name |-> JString("copy"),
     actions |-> << [action_type |-> JString("delay")],
                    [action_type |-> JString("teleport")] >>]
MissingKind ==
    [name |-> JString("copy"),
     actions |-> << [id |-> JString(0)] >>]
NoActions ==
    [name |-> JString("copy")]
UserFiles == {TwoUnderOneId, RequiredOnly, UnknownKind, MissingKind, NoActions}

\* ---------------------------------------------------------------- actions
SeqInit ==
    /\ sname = DefaultName
    /\ sactions = <<>>
    /\ sissued = 0
    /\ sfile = NoFile

\* ActionEditDialog.get_action for a new action
DialogParams(action_type) ==
    IF action_type = "MOUSE_SCROLL"
    THEN [x |-> PyNone, y |-> PyInt(1), amount |-> PyInt(1)]
    ELSE [seconds |-> PyFloat(1)]

\* history: MainWindow.sequence is no longer what load_sequence made it
Edited == sfile' = [sfile EXCEPT !.loaded = FALSE]

\* MainWindow.add_action
AddAction(action_type) ==
    /\ Len(sactions) < MaxLen
    /\ sissued < MaxIds
    /\ sactions' = add_action(sactions,
                       Action(action_type, DialogParams(action_type), <<>>,
                              Uuid(1), TRUE))
    /\ sissued' = sissued + 1
    /\ Edited
    /\ UNCHANGED sname
    /\ UNCHANGED notSeq

\* MainWindow.delete_action on the selected row
DeleteAction(row) ==
    /\ row \in 1..Len(sactions)
    /\ sactions' = remove_action(sactions, sactions[row].id)
    /\ Edited
    /\ UNCHANGED <<sname, sissued>>
    /\ UNCHANGED notSeq

\* MainWindow.move_action_up; current_row is the list's selected row,
\* counted from 0, or -1 when no row is selected
MoveActionUp(current_row) ==
    /\ current_row \in -1..(Len(sactions) - 1)
    /\ current_row > 0
    /\ sactions' = move_action(sactions, current_row, current_row - 1)
    /\ Edited
    /\ UNCHANGED <<sname, sissued>>
    /\ UNCHANGED notSeq

\* MainWindow.move_action_down
MoveActionDown(current_row) ==
    /\ current_row \in -1..(Len(sactions) - 1)
    /\ current_row < Len(sactions) - 1
    /\ sactions' = move_action(sactions, current_row, current_row + 1)
    /\ Edited
    /\ UNCHANGED <<sname, sissued>>
    /\ UNCHANGED notSeq

\* MainWindow.toggle_action
ToggleAction(row) ==
    /\ row \in 1..Len(sactions)
    /\ sactions' = [sactions EXCEPT ![row].enabled = ~sactions[row].enabled]
    /\ Edited
    /\ UNCHANGED <<sname, sissued>>
    /\ UNCHANGED notSeq

\* MainWindow.clear_sequence, ActionSequence.clear
ClearSequence ==
    /\ Len(sactions) > 0
    /\ sactions' = <<>>
    /\ Edited
    /\ UNCHANGED <<sname, sissued>>
    /\ UNCHANGED notSeq

\* MainWindow.save_sequence, ActionSequence.save_to_file
SaveSequence ==
    /\ sfile' = [by |-> "save",
                 text |-> Dump(SeqToDict(sname, sactions)),
                 saved |-> [name |-> sname, actions |-> sactions],
                 loaded |-> FALSE,
                 error |-> FALSE]
    /\ UNCHANGED <<sname, sactions, sissued>>
    /\ UNCHANGED notSeq

\* the user puts a file of their own where the load dialog finds it
PickFile(text) ==
    /\ sfile' = [by |-> "user", text |-> text, saved |-> <<>>, loaded |-> FALSE,
                 error |-> FALSE]
    /\ UNCHANGED <<sname, sactions, sissued>>
    /\ UNCHANGED notSeq

\* MainWindow.load_sequence, ActionSequence.load_from_file: the assignment
\* of line 1009 is not reached when load_from_file raises
LoadSequence ==
    /\ sfile.by # "nobody"
    /\ LET data == Load(sfile.text)
           supplied == Missing(Get(data, "actions", <<>>))
       IN IF SeqFromDictRaises(data)
          THEN /\ sfile' = [sfile EXCEPT !.error = TRUE]
               /\ UNCHANGED <<sname, sactions, sissued>>
          ELSE /\ sissued + supplied <= MaxIds
               /\ sname' = SeqFromDict(data).name
               /\ sactions' = SeqFromDict(data).actions
               /\ sissued' = sissued + supplied
               /\ sfile' = [sfile EXCEPT !.loaded = TRUE]
    /\ UNCHANGED notSeq

\* a file of the user whose action carries a description of its own
Described ==
    [name |-> JString("copy"),
     actions |-> << DumpObject([id |-> 0, action_type |-> "delay",
                                params |-> [seconds |-> PyFloat(1)],
                                description |-> <<"my", "step">>,
                                enabled |-> FALSE]) >>]

\* ActionSequence.get_action: the index of the first action with the id
FirstWithId(actions, action_id) ==
    CHOOSE i \in 1..Len(actions) :
        /\ actions[i].id = action_id
        /\ \A j \in 1..(i - 1) : actions[j].id # action_id

\* the values the user leaves in scroll_spin and delay_spin
SpinValues(action_type) == IF action_type = "MOUSE_SCROLL" THEN {-1, 2} ELSE {2}

\* ActionEditDialog.get_action, lines 336-355: the params of the kind chosen
EditedParams(action_type, value) ==
    IF action_type = "MOUSE_SCROLL"
    THEN [x |-> PyNone, y |-> PyNone, amount |-> PyInt(value)]
    ELSE [seconds |-> PyFloat(value)]

\* faulty variant: get_action without update_description()
KeptDescription(old, action_type, params) == old

\* Action.update_description, called at main_window.py:360
UpdatedDescription(old, action_type, params) ==
    GenerateDescription(action_type, params)

\* MainWindow.edit_action on a row of the list, the dialog accepted:
\* ActionEditDialog.get_action on the existing action
EditAction(row, action_type, value) ==
    /\ row \in 1..Len(sactions)
    /\ value \in SpinValues(action_type)
    /\ LET i == FirstWithId(sactions, sactions[row].id)
           params == EditedParams(action_type, value)
       IN sactions' =
              [sactions EXCEPT ![i] =
                  [@ EXCEPT !.action_type = action_type,
                            !.params = params,
                            !.description =
                                UpdatedDescription(@, action_type, params)]]
    /\ Edited
    /\ UNCHANGED <<sname, sissued>>
    /\ UNCHANGED notSeq

\* ActionSequence.move_action called with any two indexes
MoveAction(from_index, to_index) ==
    /\ sactions' = move_action(sactions, from_index, to_index)
    /\ UNCHANGED <<sname, sissued, sfile>>
    /\ UNCHANGED notSeq

SeqNext ==
    \/ \E action_type \in ActionTypes : AddAction(action_type)
    \/ \E row \in 1..MaxLen : DeleteAction(row)
    \/ \E current_row \in -1..MaxLen : MoveActionUp(current_row)
    \/ \E current_row \in -1..MaxLen : MoveActionDown(current_row)
    \/ \E row \in 1..MaxLen : ToggleAction(row)
    \/ ClearSequence
    \/ SaveSequence
    \/ \E text \in UserFiles : PickFile(text)
    \/ LoadSequence

\* --------------------------------- the executor on MainWindow.sequence
\* main_window.py:447-467, 849, 978: an ExecutionThread is given
\* MainWindow.sequence itself, not a copy, and run() passes it to
\* execute_sequence.

\* the `enabled` flags execute_action reads (executor.py:50)
Flags(actions) == [i \in 1..Len(actions) |-> actions[i].enabled]

\* faulty variant: execute_action disables the action it has run
ExecutedDisabled(action) == [action EXCEPT !.enabled = FALSE]

\* executor.py:40-124: what execute_action leaves of the action it was
\* given: it reads enabled, action_type and params (through params.get) and
\* assigns to none of them
Executed(action) == action

\* executor.py:136-137 entered with MainWindow.sequence
SequenceEnter ==
    /\ Enter(Flags(sactions))

\* executor.py:147-153 on the action at the loop's index
SequenceRun(ok) ==
    /\ ActionRunBody(ok)
    /\ sactions' = [sactions EXCEPT ![eidx + 1] = Executed(@)]
    /\ UNCHANGED <<sname, sissued, sfile>>
    /\ UNCHANGED <<schedVars, winVars, kbdVars, timeVars>>

\* ======================================== format_time and calculate_seconds
\* the values of the arguments: hours, and minutes or seconds
Hours == 0..99
Sixty == 0..59

\* str() of a non-negative int
DigitChars == <<"0", "1", "2", "3", "4", "5", "6", "7", "8", "9">>
RECURSIVE Decimal(_)
Decimal(n) ==
    IF n < 10 THEN <<DigitChars[n + 1]>>
    ELSE Decimal(n \div 10) \o <<DigitChars[(n % 10) + 1]>>

\* the format specification 02d: at least two digits, padded with zeros
Pad02(n) == IF n < 10 THEN <<"0">> \o Decimal(n) ELSE Decimal(n)

\* faulty variant: the minutes are not reduced modulo the hour
format_time_all_minutes(seconds) ==
    Pad02(seconds \div 3600) \o <<":">> \o Pad02(seconds \div 60)
        \o <<":">> \o Pad02(seconds % 60)

\* ShutdownScheduler.format_time
format_time(seconds) ==
    LET hours == seconds \div 3600
        minutes == (seconds % 3600) \div 60
        secs == seconds % 60
    IN Pad02(hours) \o <<":">> \o Pad02(minutes) \o <<":">> \o Pad02(secs)

\* ShutdownScheduler.calculate_seconds
calculate_seconds(hours, minutes, seconds) == hours * 3600 + minutes * 60 + seconds

TimeInit ==
    /\ targs = <<0, 0, 0>>
    /\ ttotal = -1
    /\ ttext = <<>>

\* MainWindow.start_countdown, lines 762-766
CalculateSeconds ==
    /\ ttotal = -1
    /\ ttotal' = calculate_seconds(targs[1], targs[2], targs[3])
    /\ UNCHANGED <<targs, ttext>>
    /\ UNCHANGED notTime

\* MainWindow.start_countdown, line 777
FormatTime ==
    /\ ttotal >= 0
    /\ ttext = <<>>
    /\ ttext' = format_time(ttotal)
    /\ UNCHANGED <<targs, ttotal>>
    /\ UNCHANGED notTime

\* ==================================================================== claims
IsPrefix(a, b) == Len(a) <= Len(b) /\ SubSeq(b, 1, Len(a)) = a

\* a run that start() began on a scheduler with no Timer alive, and during
\* which no public method has been called
Undisturbed == run.started /\ run.clean /\ ~run.ops

\* nothing is left to execute: the caller is back and no Timer is alive
RunOver == caller.pc = "idle" /\ timers = EmptyBag

\* tick n, tick n-1, ..., tick 1, each tick carrying w followed by a warning
RECURSIVE CountDown(_, _)
CountDown(n, w) ==
    IF n <= 0 THEN <<>>
    ELSE <<Note("tick", n)>>
         \o (IF n = w THEN <<Note("warning", n)>> ELSE <<>>)
         \o CountDown(n - 1, w)

\* tick n-1, tick n-2, ..., tick 0
RECURSIVE CountDownFromBelow(_)
CountDownFromBelow(n) ==
    IF n <= 0 THEN <<>> ELSE <<Note("tick", n - 1)>> \o CountDownFromBelow(n - 1)

TicksAndCompletes == SelectSeq(log, LAMBDA e : e.k \in {"tick", "complete"})
Warnings == SelectSeq(log, LAMBDA e : e.k = "warning")
Completed == <<Note("complete", 0)>>

\* C1 (as amended): an undisturbed start(seconds), seconds >= 1, delivers the
\* ticks seconds, seconds-1, ..., 1 in this order (each tick carries the
\* value before the decrement), then exactly one complete, and nothing after.
C1_TicksCountDown ==
    (Undisturbed /\ run.seconds >= 1) =>
        /\ IsPrefix(TicksAndCompletes, CountDown(run.seconds, -1) \o Completed)
        /\ RunOver => TicksAndCompletes = CountDown(run.seconds, -1) \o Completed

C1_Witness ==
    /\ Undisturbed /\ run.seconds >= 2 /\ RunOver
    /\ TicksAndCompletes = CountDown(run.seconds, -1) \o Completed

\* C1 as claimed: the ticks carry seconds-1, seconds-2, ..., 0.
C1_AsClaimed ==
    (Undisturbed /\ run.seconds >= 1 /\ RunOver) =>
        TicksAndCompletes = CountDownFromBelow(run.seconds) \o Completed

\* how many Timer threads are at one of the statements P
RECURSIVE CopiesAt(_, _)
CopiesAt(S, P) ==
    IF S = {} THEN 0
    ELSE LET d == CHOOSE x \in S : TRUE
         IN (IF d.pc \in P THEN CopiesIn(d, timers) ELSE 0) + CopiesAt(S \ {d}, P)

\* tick chains that will go on: Timers waiting to fire, and threads that
\* have decided (line 115) to start the next Timer
LiveChains ==
    CopiesAt(BagToSet(timers), {"pending", "l116"})
    + (IF caller.pc = "l116" THEN 1 ELSE 0)

\* C2 as claimed: once a cancel() that found time remaining has returned, no
\* complete notification and at most one further tick is delivered.
C2_NothingAfterCancel ==
    (quiet.phase = "cancelled" /\ quiet.rem > 0) =>
        quiet.complete = 0 /\ quiet.tick <= 1

\* C3 as claimed: there is never more than one live tick chain.
C3_OneTickChain == LiveChains <= 1

\* C4 as claimed: in a run that is not cancelled, complete fires at most once
\* and never while a tick callback of the run is executing.
C4_CompleteOnce ==
    (run.started /\ run.clean /\ quiet.phase # "cancelled") =>
        /\ run.completes <= 1
        /\ ~(\E a, b \in Running : a.pc = "in_complete" /\ b.pc = "in_tick")

\* C5: an undisturbed start(0) delivers no tick and no warning, exactly one
\* complete, and leaves is_running false.
C5_StartZero ==
    (Undisturbed /\ run.seconds = 0) =>
        /\ log \in {<<>>, Completed}
        /\ log = Completed => ~is_running
        /\ caller.pc = "idle" => log = Completed

C5_Witness ==
    /\ Undisturbed /\ run.seconds = 0 /\ warning_seconds = 0
    /\ caller.pc = "idle" /\ log = Completed /\ ~is_running

NoPending == \A d \in BagToSet(timers) : d.pc # "pending"

\* C6 as claimed: cancel() leaves is_running false, remaining_seconds 0 and
\* no pending timer, and a cancel() in that state changes nothing.
C6_CancelResets ==
    [][Cancel =>
        /\ ~is_running' /\ remaining_seconds' = 0 /\ NoPending'
        /\ (~is_running /\ remaining_seconds = 0 /\ countdown_timer = "None") =>
               UNCHANGED <<remaining_seconds, is_running, warning_seconds,
                           countdown_timer, caller, timers>>]_vars

\* C7 (as amended): in an undisturbed run with threshold w, 1 <= w < seconds,
\* exactly one warning is delivered, directly after the tick that carries w
\* and before the next tick; with w = 0 no warning is delivered, because no
\* tick carries 0.
C7_WarningWithItsTick ==
    (Undisturbed /\ warning_seconds \in 0..(run.seconds - 1)) =>
        /\ IsPrefix(log, CountDown(run.seconds, warning_seconds) \o Completed)
        /\ RunOver => log = CountDown(run.seconds, warning_seconds) \o Completed

C7_Witness ==
    /\ Undisturbed /\ RunOver /\ run.seconds = 2 /\ warning_seconds = 1
    /\ log = <<Note("tick", 2), Note("tick", 1), Note("warning", 1), Note("complete", 0)>>

\* C7 as claimed: for 0 <= w < seconds exactly one warning is delivered,
\* directly after the tick that carries w.
C7_AsClaimed ==
    (Undisturbed /\ RunOver /\ warning_seconds \in 0..(run.seconds - 1)) =>
        /\ Len(Warnings) = 1
        /\ \E i \in 1..(Len(log) - 1) :
               /\ log[i] = Note("tick", warning_seconds)
               /\ log[i + 1] = Note("warning", warning_seconds)

\* a resume() that follows a pause() returns
ResumeReturns ==
    quiet.phase = "resuming" /\ caller.pc \in TickPcs /\ caller'.pc = "idle"

\* C8 as claimed: when resume() returns after a pause() made with no Timer
\* thread in flight, remaining_seconds equals the value it had when pause()
\* was called.
C8_ResumePreservesRemaining ==
    [][(ResumeReturns /\ quiet.solo) => remaining_seconds' = quiet.rem]_vars

\* C9 as claimed: nothing is delivered between the return of pause() and the
\* next resume()/start().
C9_SilentWhilePaused ==
    quiet.phase = "paused" =>
        quiet.tick = 0 /\ quiet.warning = 0 /\ quiet.complete = 0

\* C10 as claimed: stop() called after action k was started and before k+1
\* is started: the call returns False, action k is completed, no later
\* action is started, and there is exactly one sequence-complete.
C10_StopBetweenActions ==
    (epc = "idle" /\ eret # "none" /\ estop >= 1) =>
        /\ eret = "False"
        /\ Count("complete") = estop
        /\ Count("start") = estop
        /\ Count("sequence_complete") = 1

\* the call of execute_sequence has returned
Returned == epc = "idle" /\ eret # "none"

\* C11: every call of execute_sequence emits exactly one sequence-complete
\* notification, as the last notification of the call, whether the run ends
\* in success, in a driver failure or in a cancellation, also for an empty
\* sequence; none is emitted while the call is in progress.
C11_OneSequenceComplete ==
    /\ epc # "idle" => Count("sequence_complete") = 0
    /\ Returned =>
           /\ Count("sequence_complete") = 1
           /\ elog[Len(elog)].k = "sequence_complete"

C11_Witness ==
    /\ Returned /\ eret = "False" /\ estop >= 0 /\ Count("error") = 1
    /\ elog[Len(elog)].k = "sequence_complete"

\* how many notifications of kind k carry the index i
CountAt(k, i) == Len(SelectSeq(elog, LAMBDA e : e.k = k /\ e.v = i))

\* no stop() was called during the call
NotCancelled == estop = -1

\* C12: in a non-cancelled run every action, disabled ones included, gets one
\* action-start and one action-complete with its own index; a disabled action
\* reaches no driver call and no error; the result is True iff no enabled
\* action failed.
C12_DisabledIsNoOpSuccess ==
    (Returned /\ NotCancelled) =>
        /\ \A i \in 1..Len(eseq) :
               /\ CountAt("start", i - 1) = 1
               /\ CountAt("complete", i - 1) = 1
               /\ ~eseq[i] => CountAt("dispatch", i - 1) = 0 /\ CountAt("error", i - 1) = 0
        /\ eret = "True" <=> \A i \in 1..Len(eseq) : eseq[i] => CountAt("error", i - 1) = 0

C12_Witness ==
    /\ Returned /\ NotCancelled /\ eret = "True"
    /\ eseq = <<TRUE, FALSE>>
    /\ CountAt("start", 1) = 1 /\ CountAt("complete", 1) = 1
    /\ CountAt("dispatch", 0) = 1 /\ CountAt("dispatch", 1) = 0

\* the position in elog of the notification k with index i, 0 if none
Position(k, i) ==
    LET at == {n \in 1..Len(elog) : elog[n] = Note(k, i)}
    IN IF at = {} THEN 0 ELSE CHOOSE n \in at : \A m \in at : n <= m

\* C13: when the driver fails on action i of a non-cancelled run, exactly one
\* error notification for that action is emitted, before action-complete(i),
\* which is still emitted; every later action is still started; and
\* execute_sequence returns False.
C13_FailureGoesOn ==
    (Returned /\ NotCancelled) =>
        \A i \in 1..Len(eseq) :
            /\ CountAt("error", i - 1) = CountAt("fail", i - 1)
            /\ CountAt("fail", i - 1) = 1 =>
                   /\ Position("fail", i - 1) < Position("error", i - 1)
                   /\ Position("error", i - 1) < Position("complete", i - 1)
                   /\ CountAt("complete", i - 1) = 1
                   /\ \A j \in (i + 1)..Len(eseq) : CountAt("start", j - 1) = 1
                   /\ eret = "False"

C13_Witness ==
    /\ Returned /\ NotCancelled /\ eret = "False" /\ eseq = <<TRUE, TRUE>>
    /\ CountAt("fail", 0) = 1 /\ CountAt("error", 0) = 1
    /\ CountAt("start", 1) = 1 /\ CountAt("dispatch", 1) = 1 /\ CountAt("fail", 1) = 0

\* C14 as claimed: a stop() made while execute_sequence is in progress, after
\* an action has been started, makes the call return False.
C14_StopMeansFailure == (Returned /\ estop >= 1) => eret = "False"

\* the ExecutionThreads that are inside execute_sequence of executor e
Executing(e) ==
    {t \in 1..Len(wthreads) : wthreads[t].executor = e /\ wthreads[t].state = "executing"}

\* C15: no two execute_sequence calls on the same ActionExecutor instance are
\* in progress at the same time.
C15_OneRunPerExecutor ==
    \A e \in 1..MaxThreads : Cardinality(Executing(e)) <= 1

C15_Witness ==
    /\ Len(wthreads) >= 2
    /\ wthreads[1].state = "executing" /\ wthreads[2].state = "executing"
    /\ wthreads[1].executor # wthreads[2].executor

\* C16: every countdown completion handled by _execute_shutdown leads to at
\* most one power request; without actions to run the request is issued at
\* once; with actions it is issued by the slot of the run's
\* sequence_completed signal, not before, and exactly once.
C16_PowerRequestOnce ==
    \A i \in 1..Len(wreq) :
        LET r == wreq[i]
        IN /\ r.issued <= 1
           /\ ~r.actions => r.thread = 0 /\ r.issued = 1
           /\ r.actions =>
                  /\ r.thread # 0
                  /\ r.issued = 1 <=> wthreads[r.thread].state = "done"

C16_Witness ==
    /\ Len(wreq) = 2
    /\ wreq[1].actions /\ wreq[1].issued = 1 /\ wthreads[wreq[1].thread].state = "done"
    /\ ~wreq[2].actions /\ wreq[2].issued = 1

\* how many times the driver function `name` was called for the action
Calls(name) == Len(SelectSeq(khist.calls, LAMBDA x : x = name))

\* execute_action has returned for the action kact
ActionReturned == kpc = "idle" /\ khist.result # "none"

C18_UnicodeIffNonAscii ==
    ActionReturned =>
        IF kact.enabled
        THEN /\ Calls("type_unicode") + Calls("type_text") = 1
             /\ Calls("type_unicode") = 1 <=>
                    \E i \in 1..Len(kact.text) : kact.text[i] > 127
        ELSE Calls("type_unicode") + Calls("type_text") = 0

C18_Witness ==
    /\ ActionReturned /\ kact.enabled
    /\ kact.text = <<127, 233>> /\ Calls("type_unicode") = 1 /\ Calls("type_text") = 0

\* C18 as claimed: type_unicode is used iff the text has a character outside
\* the printable 7-bit range 32..126.
C18_AsClaimed ==
    (ActionReturned /\ kact.enabled) =>
        /\ Calls("type_unicode") + Calls("type_text") = 1
        /\ Calls("type_unicode") = 1 <=>
               \E i \in 1..Len(kact.text) : kact.text[i] \notin 32..126

\* what the claims compare of two sequences: the name and, in order, each
\* action's id, kind, parameters and enabled flag
Same(s, t) ==
    /\ s.name = t.name
    /\ Len(s.actions) = Len(t.actions)
    /\ \A i \in 1..Len(s.actions) :
          /\ s.actions[i].id = t.actions[i].id
          /\ s.actions[i].action_type = t.actions[i].action_type
          /\ s.actions[i].params = t.actions[i].params
          /\ s.actions[i].enabled = t.actions[i].enabled

Current == [name |-> sname, actions |-> sactions]

\* C19: for every sequence the program holds, from_dict(to_dict()) and
\* from_dict of the JSON text of to_dict() give a sequence with the same name
\* and the same actions in the same order, each with the same id, kind,
\* parameters and enabled flag; and load_sequence on a file save_sequence
\* wrote leaves MainWindow.sequence equal in these to what was saved.
C19_RoundTrip ==
    /\ Same(SeqFromDict(SeqToDict(sname, sactions)), Current)
    /\ Same(SeqFromDict(Load(Dump(SeqToDict(sname, sactions)))), Current)
    /\ (sfile.by = "save" /\ sfile.loaded) => Same(Current, sfile.saved)

\* a saved file with int, float and None parameters, two kinds and a
\* disabled action has been loaded back
C19_Witness ==
    /\ sfile.by = "save"
    /\ sfile.loaded
    /\ Len(sfile.saved.actions) = 2
    /\ \E i, j \in 1..2 :
          /\ sfile.saved.actions[i].action_type = "MOUSE_SCROLL"
          /\ ~sfile.saved.actions[i].enabled
          /\ sfile.saved.actions[j].action_type = "DELAY"
    /\ sactions = sfile.saved.actions

\* the notifications delivered, without the history of what raised
Delivered == SelectSeq(log, LAMBDA e : e.k # "raise")

\* C22: in an undisturbed run whose callbacks raise (any of them, any number
\* of times), the notifications are those of a run whose callbacks return:
\* every tick from seconds down to 1, the warning with the tick that carries
\* the threshold, then one complete; and the scheduler ends not running.
C22_RaisingCallbacks ==
    Undisturbed =>
        /\ IsPrefix(Delivered, CountDown(run.seconds, warning_seconds) \o Completed)
        /\ RunOver =>
              /\ Delivered = CountDown(run.seconds, warning_seconds) \o Completed
              /\ ~is_running
              /\ remaining_seconds = 0

\* every callback of a run of two seconds has raised
C22_Witness ==
    /\ Undisturbed /\ RunOver /\ run.seconds = 2 /\ warning_seconds = 1
    /\ log = <<Note("tick", 2), Note("raise", 2),
               Note("tick", 1), Note("raise", 1),
               Note("warning", 1), Note("raise", 1),
               Note("complete", 0), Note("raise", 0)>>

\* the steps made inside a `with self._lock` block: lines 60-62 of start,
\* the body of cancel, lines 79-89 of the tick
LockedStep ==
    \/ StartLock
    \/ StartCancel
    \/ Cancel
    \/ \E d \in Running : TickLock(d)

\* the statements of the tick that read _is_running outside the lock
UnlockedReads == {"l68", "l115"}

\* C23: no thread reads _is_running outside the lock, and every step that
\* changes is_running or remaining_seconds is made inside a locked block.
C23_AccessUnderLock ==
    /\ [](\A d \in Running : d.pc \notin UnlockedReads)
    /\ [][(is_running' # is_running \/ remaining_seconds' # remaining_seconds)
             => LockedStep]_vars

\* what a call can change: the fields, the Timers, where the threads are
SchedulerState ==
    <<remaining_seconds, is_running, warning_seconds, countdown_timer, caller,
      timers>>

\* C25: a resume() called when remaining_seconds <= 0 or is_running changes
\* no field, starts and cancels no Timer, and runs no tick step (so that it
\* delivers no notification).
C25_ResumeNoOp ==
    [][(ResumeCall /\ (remaining_seconds <= 0 \/ is_running))
          => UNCHANGED SchedulerState]_vars

\* resume() has been called on a running countdown with time left and has
\* returned
C25_Witness ==
    /\ run.noop /\ caller.pc = "idle"
    /\ is_running /\ remaining_seconds > 0 /\ timers # EmptyBag

\* a list without its i-th element (i counted from 1)
Without(list, i) ==
    [j \in 1..(Len(list) - 1) |-> IF j < i THEN list[j] ELSE list[j + 1]]

\* C26: move_action(a, b) with a or b outside 0..len-1 leaves the list as it
\* is; otherwise the list keeps its length, the action that was at index a
\* is at index b, and the other actions are the same in the same order.
C26_MoveAction ==
    [][\A a, b \in -1..MaxMoveLen :
          MoveAction(a, b) =>
              IF a \in 0..(Len(sactions) - 1) /\ b \in 0..(Len(sactions) - 1)
              THEN /\ Len(sactions') = Len(sactions)
                   /\ sactions'[b + 1] = sactions[a + 1]
                   /\ Without(sactions', b + 1) = Without(sactions, a + 1)
              ELSE sactions' = sactions]_vars

\* the first of three actions has been moved to the end
C26_Witness ==
    /\ Len(sactions) = 3
    /\ sactions[1].id = 2 /\ sactions[2].id = 3 /\ sactions[3].id = 1

\* C27: an edit through the dialog replaces kind and parameters of the
\* action, leaves it with the description generated from the new kind and
\* parameters, keeps its id and enabled flag, and leaves every other action
\* and the order as they were.
C27_DescriptionRecomputed ==
    [][\A row \in 1..MaxLen : \A action_type \in ActionTypes : \A value \in -1..2 :
          EditAction(row, action_type, value) =>
              LET i == FirstWithId(sactions, sactions[row].id)
              IN /\ Len(sactions') = Len(sactions)
                 /\ sactions'[i].action_type = action_type
                 /\ sactions'[i].params = EditedParams(action_type, value)
                 /\ sactions'[i].description =
                        GenerateDescription(action_type,
                                            EditedParams(action_type, value))
                 /\ sactions'[i].id = sactions[i].id
                 /\ sactions'[i].enabled = sactions[i].enabled
                 /\ \A j \in 1..Len(sactions) : j # i => sactions'[j] = sactions[j]]_vars

\* an action loaded disabled and with a description of its own has been
\* edited into a scroll downwards
C27_Witness ==
    /\ sfile.text = Described
    /\ Len(sactions) = 1
    /\ sactions[1] = [id |-> 0, action_type |-> "MOUSE_SCROLL",
                       params |-> EditedParams("MOUSE_SCROLL", -1),
                       description |-> <<"scroll", "down", 1>>,
                       enabled |-> FALSE]

\* HH:MM:SS, each part written with two digits
TwoDigits(n) == <<DigitChars[(n \div 10) + 1], DigitChars[(n % 10) + 1]>>
Clock(h, m, s) ==
    TwoDigits(h) \o <<":">> \o TwoDigits(m) \o <<":">> \o TwoDigits(s)

\* C28: calculate_seconds(h, m, s) is h*3600 + m*60 + s, and for h in 0..99
\* and m, s in 0..59 format_time of it is HH:MM:SS with two digits each;
\* format_time(3661) is 01:01:01; neither call changes anything else.
C28_TimeFunctions ==
    /\ ttotal >= 0 => ttotal = targs[1] * 3600 + targs[2] * 60 + targs[3]
    /\ ttext # <<>> => ttext = Clock(targs[1], targs[2], targs[3])
    /\ format_time(3661) = <<"0", "1", ":", "0", "1", ":", "0", "1">>
    /\ calculate_seconds(1, 1, 1) = 3661
    /\ schedVars = <<0, FALSE, DefaultWarningSeconds, "None", IdleCaller,
                     EmptyBag, "none", 0, NoRun, <<>>, NoQuiet>>

C28_Witness ==
    /\ targs = <<99, 59, 59>>
    /\ ttotal = 359999
    /\ ttext = <<"9", "9", ":", "5", "9", ":", "5", "9">>

\* C29: while no start() or cancel() has been called since the countdown was
\* started, a thread that has left the locked block with the value v > 0 for
\* the tick callback, or is inside the tick callback that carries v, finds
\* v - 1 stored in remaining_seconds.
C29_TickDecrements ==
    (run.started /\ run.clean /\ ~run.stopped) =>
        \A d \in Running :
            d.pc \in {"l101", "in_tick"} =>
                /\ d.rem > 0
                /\ remaining_seconds = d.rem - 1

\* C30: once resume() has been called after a pause() of a running countdown
\* that had not delivered its complete notification, the complete notification
\* is eventually delivered unless another public method is called first.
C30_ResumeCompletes == run.resumed ~> (run.completes > 0 \/ ~run.resumed)

\* C31: a thread that calls cancel(), pause() or start() from a callback is
\* never left waiting for the lock, and a thread whose tick callback called
\* cancel() finds _is_running False at line 115, so that it starts no Timer,
\* while no start() has followed that cancel().
C31_CallbacksOutsideLock ==
    /\ \A d \in Running : d.pc # "blocked"
    /\ \A d \in Running :
           (d.pc = "l115" /\ d.cc = "cancel" /\ quiet.phase = "cancelled")
               => ~is_running

\* a Timer thread whose tick callback called cancel() is at line 115
C31_Witness ==
    /\ quiet.phase = "cancelled"
    /\ ~is_running
    /\ \E d \in BagToSet(timers) : d.pc = "l115" /\ d.cc = "cancel"

\* C32: between a start() and the next call of start() or cancel(), at most
\* one warning notification is delivered.
C32_WarningAtMostOnce == run.warnings <= 1

\* C33: remaining_seconds is a natural number in every state; the tick step
\* that finds the countdown over leaves is_running False and remaining_seconds
\* 0; and when a countdown that nothing interfered with is over, the scheduler
\* is idle with is_running False and remaining_seconds 0.
C33_RemainingNonNegative ==
    /\ [](remaining_seconds \in Nat)
    /\ []((Undisturbed /\ RunOver) => (~is_running /\ remaining_seconds = 0))
    /\ [][\A d \in Running :
              (TickLock(d) /\ Expired(remaining_seconds))
                  => (~is_running' /\ remaining_seconds' = 0)]_vars

\* a countdown of two seconds that was paused and resumed has completed and
\* every thread has returned
C33_Witness ==
    /\ run.seconds = 2 /\ run.ops /\ ~run.stopped
    /\ run.completes >= 1
    /\ RunOver
    /\ ~is_running /\ remaining_seconds = 0

\* the notifications of the current call of execute_sequence, in the order
\* of delivery
Notified ==
    SelectSeq(elog, LAMBDA e : e.k \in {"start", "error", "complete", "sequence_complete"})

\* C34: in the notifications of one call of execute_sequence, the first
\* action-start carries index 0 and every later one follows the
\* action-complete of the index before it; an error notification directly
\* follows the action-start of its index; an action-complete follows the
\* action-start or the error of its index; every index is a position of the
\* sequence; and sequence-complete is the last notification.
C34_NotificationOrder ==
    \A j \in 1..Len(Notified) :
        LET e == Notified[j]
            before == Notified[j - 1]
        IN /\ e.k = "start" =>
                  /\ e.v \in 0..(Len(eseq) - 1)
                  /\ IF j = 1 THEN e.v = 0
                     ELSE before = Note("complete", e.v - 1)
           /\ e.k = "error" => (j > 1 /\ before = Note("start", e.v))
           /\ e.k = "complete" =>
                  (j > 1 /\ before \in {Note("start", e.v), Note("error", e.v)})
           /\ e.k = "sequence_complete" =>
                  /\ j = Len(Notified)
                  /\ j > 1 => before.k = "complete"

\* a call has returned in which the first action failed and the second one
\* succeeded
C34_Witness ==
    /\ epc = "idle"
    /\ Notified = <<Note("start", 0), Note("error", 0), Note("complete", 0),
                    Note("start", 1), Note("complete", 1),
                    Note("sequence_complete", 0)>>

\* C35: a call of execute_sequence that follows a stop(), and during which
\* stop() is not called, has the flag set from its entry to line 155, emits
\* an action-start for every action, and returns False only if an action
\* failed.
C35_EarlyStopIgnored ==
    (eearly = "yes" /\ estop = -1) =>
        /\ epc \in {"l139", "l144", "l147"} => ex_running
        /\ Returned =>
              /\ Count("start") = Len(eseq)
              /\ eret = (IF Count("fail") = 0 THEN "True" ELSE "False")

\* stop() was called before the call, which started both actions and
\* returned True
C35_Witness ==
    /\ eearly = "yes" /\ estop = -1
    /\ Returned /\ eret = "True"
    /\ Len(eseq) = 2 /\ Count("start") = 2 /\ Count("dispatch") = 2

\* C36: the completions signalled before the last cancel_countdown have led
\* to no call of ShutdownController.shutdown since that cancel_countdown.
C36_NoShutdownAfterCancel ==
    wcancel.at >= 0 => Issued(Min(wcancel.at, Len(wreq))) = wcancel.issued

\* C37 (as amended): in an undisturbed run started with seconds below the
\* threshold no warning is delivered; in one started with seconds equal to
\* the threshold and at least 1, the warning is the second notification,
\* directly after the first tick, and it has been delivered when start()
\* returns.
C37_SecondsAndThreshold ==
    Undisturbed =>
        /\ run.seconds < warning_seconds => Warnings = <<>>
        /\ (run.seconds = warning_seconds /\ run.seconds >= 1) =>
               /\ Warnings \in {<<>>, <<Note("warning", run.seconds)>>}
               /\ Len(log) >= 2 =>
                      /\ log[1] = Note("tick", run.seconds)
                      /\ log[2] = Note("warning", run.seconds)
               /\ caller.pc = "idle" => Len(log) >= 2

\* start(2) with the threshold at 2 has returned
C37_Witness ==
    /\ Undisturbed /\ run.seconds = 2 /\ warning_seconds = 2
    /\ caller.pc = "idle"
    /\ log = <<Note("tick", 2), Note("warning", 2)>>

\* C37 as claimed: whenever seconds equals the threshold, a warning has been
\* delivered when start() returns.
C37_AsClaimed ==
    (Undisturbed /\ run.seconds = warning_seconds /\ caller.pc = "idle")
        => Warnings # <<>>

\* C38: from the entry of execute_sequence to its return, no step changes
\* the sequence: its name, the list of actions and every field of every
\* action stay as they are, and the flags the executor goes by are those of
\* the sequence.
C38_SequenceNotMutated ==
    /\ [](epc # "idle" => eseq = Flags(sactions))
    /\ [][(epc # "idle" \/ epc' # "idle") => UNCHANGED <<sname, sactions>>]_vars

\* a run over two actions, the first one disabled, in which the second one
\* failed and stop() was called has returned
C38_Witness ==
    /\ Returned /\ eret = "False"
    /\ Len(sactions) = 2 /\ ~sactions[1].enabled /\ sactions[2].enabled
    /\ Count("fail") = 1 /\ estop >= 0
    /\ Count("start") = 2

\* C24: the thread that called start() or resume() is never inside the tick
\* step or one of the callbacks it invokes.
C24_TimingThreadOnly == caller.pc \notin TickPcs

\* a JSON document has the actions list and every action in it a kind of
\* the enum
WellFormed(text) ==
    /\ "actions" \in DOMAIN text
    /\ \A i \in 1..Len(text.actions) :
          /\ "action_type" \in DOMAIN text.actions[i]
          /\ KnownValue(text.actions[i].action_type.s)

\* C21: load_sequence on a malformed document (an action of an unknown or
\* missing kind, or no actions list) installs no sequence and leaves
\* MainWindow.sequence as it was.
C21_MalformedLoadFails ==
    /\ [](sfile.loaded => WellFormed(sfile.text))
    /\ [][(LoadSequence /\ ~WellFormed(sfile.text))
             => (sname' = sname /\ sactions' = sactions /\ sfile'.error)]_vars

\* C20: no two actions of the sequence have the same id.
C20_UniqueIds ==
    \A i, j \in 1..Len(sactions) :
        i # j => sactions[i].id # sactions[j].id

\* ============================================================ specifications

Init == SchedInit /\ ExecInit /\ WinInit /\ KbdInit /\ SeqInit /\ TimeInit

\* The scheduler under start/cancel/pause/resume from one calling thread.
Next ==
    \/ StartSteps
    \/ Cancel
    \/ PauseCall
    \/ PauseFlag
    \/ ResumeCall
    \/ ResumeFlag
    \/ TickSteps
Spec == Init /\ [][Next]_vars

\* The scheduler under set_warning_seconds and start() on an idle scheduler
\* with no Timer alive: one countdown at a time.
StartFresh(n) == ~is_running /\ Quiescent /\ StartCall(n)

NextWarn ==
    \/ \E n \in 0..MaxSeconds : StartFresh(n)
    \/ StartLock
    \/ \E w \in 0..MaxSeconds : SetWarningSeconds(w)
    \/ TickSteps
SpecWarn == Init /\ [][NextWarn]_vars

\* One countdown of up to MaxPaused seconds under pause() and resume().
StartOnce(n) == ~run.started /\ caller.pc = "idle" /\ mop = "none" /\ StartCall(n)

NextPause ==
    \/ \E n \in 0..MaxPaused : StartOnce(n)
    \/ StartLock
    \/ PauseCall
    \/ PauseFlag
    \/ ResumeCall
    \/ ResumeFlag
    \/ TickSteps
SpecPause == Init /\ [][NextPause]_vars

\* The same when every thread that can take a step of the tick, and the
\* caller inside pause() or resume(), is eventually scheduled, and a started
\* Timer that is not cancelled fires.
SpecPauseLive ==
    /\ SpecPause
    /\ WF_vars(TickSteps)
    /\ WF_vars(StartLock)
    /\ WF_vars(PauseFlag)
    /\ WF_vars(ResumeFlag)

\* One countdown started from outside, with callbacks that call cancel(),
\* pause() and start().
NextReenter ==
    \/ \E n \in 0..MaxSeconds : StartOnce(n)
    \/ StartLock
    \/ TickSteps
    \/ CallbackSteps
SpecReenter == Init /\ [][NextReenter]_vars

\* The same with callbacks that raise.
NextRaise ==
    \/ NextWarn
    \/ \E d \in Running : \E inTick, inWarning \in BOOLEAN :
           TickRaises(d, inTick, inWarning)
    \/ \E d \in Running : CompleteRaises(d)
SpecRaise == Init /\ [][NextRaise]_vars

\* MainWindow.sequence under the dialog: new actions, edits, toggles, and
\* actions loaded from files of the user.
NextEdit ==
    \/ \E action_type \in ActionTypes : AddAction(action_type)
    \/ \E row \in 1..MaxLen : ToggleAction(row)
    \/ \E row \in 1..MaxLen : \E action_type \in ActionTypes : \E value \in -1..2 :
           EditAction(row, action_type, value)
    \/ \E text \in {TwoUnderOneId, Described} : PickFile(text)
    \/ LoadSequence
SpecEdit == Init /\ [][NextEdit]_vars

\* ActionSequence.move_action as a function: any list of up to MaxMoveLen
\* actions as add_action builds it, any two indexes.
InitMove ==
    /\ SchedInit /\ ExecInit /\ WinInit /\ KbdInit /\ TimeInit
    /\ sname = DefaultName
    /\ sfile = NoFile
    /\ \E n \in 0..MaxMoveLen :
          /\ sissued = n
          /\ sactions = [i \in 1..n |->
                            Action("DELAY", DialogParams("DELAY"), <<>>, i, TRUE)]
NextMove == \E from_index, to_index \in -1..MaxMoveLen : MoveAction(from_index, to_index)
SpecMove == InitMove /\ [][NextMove]_vars

\* calculate_seconds and format_time as functions: any hours in 0..99, any
\* minutes and seconds in 0..59.
InitTime ==
    /\ SchedInit /\ ExecInit /\ WinInit /\ KbdInit /\ SeqInit
    /\ targs \in Hours \X Sixty \X Sixty
    /\ ttotal = -1
    /\ ttext = <<>>
NextTime ==
    \/ CalculateSeconds
    \/ FormatTime
SpecTime == InitTime /\ [][NextTime]_vars

\* The executor: one worker thread and stop() from another thread.
SpecExec == Init /\ [][ExecNext]_vars

\* The executor on MainWindow.sequence, which is edited between the runs.
NextRun ==
    \/ \E action_type \in ActionTypes : epc = "idle" /\ AddAction(action_type)
    \/ \E row \in 1..MaxLen : epc = "idle" /\ ToggleAction(row)
    \/ SequenceEnter
    \/ LoopHead
    \/ ActionStart
    \/ \E ok \in BOOLEAN : SequenceRun(ok)
    \/ Finish
    \/ SequenceComplete
    \/ Stop
SpecRun == Init /\ [][NextRun]_vars

\* MainWindow: countdown completions, test runs and cancel_countdown.
SpecWin == Init /\ [][WinNext]_vars

\* One TypeText action: execute_action with any text, interval and clipboard.
SpecType == Init /\ [][KbdNext]_vars

\* MainWindow.sequence under the editing, save and load handlers.
SpecSeq == Init /\ [][SeqNext]_vars

====
